---- MODULE Spec2Model ----
(***************************************************************************)
(* Model of fundsp-rack's effect chain (src/src/effects/chain.rs),         *)
(* polyphonic voice manager (src/src/synth/poly.rs), CPU meter             *)
(* (src/src/metrics.rs) and smoothed parameter                             *)
(* (src/src/effects/smoothing.rs, src/src/effects/registry.rs).            *)
(*                                                                         *)
(* Conventions                                                             *)
(*  - Option<T> is a sequence: None is << >>, Some(x) is << x >>.           *)
(*  - The f64 values of the CPU meter and the f32 values of a smoothed       *)
(*    parameter and of the controls read beside it are IEEE 754 floats,     *)
(*    computed bit for bit. The other f32 values are scaled integers        *)
(*    (velocity 0.8 is 8, pitch bend 1.0 is 10; a parameter of an effect is *)
(*    in hundredths: vibrato rate 5.0 is 500, pan 0.01 is 1); a stereo      *)
(*    sample is a pair << l, r >>.                                          *)
(*  - Vec indices are 0-based in the code and in every operation argument   *)
(*    and result of the model; At(s, i) reads element i of a Vec.           *)
(*  - A HashMap<String, f32> is a function from its key set to values.      *)
(*  - The audio units built by the registries are opaque: what a processor  *)
(*    returns for a sample is a nondeterministic choice. Of the unit of an  *)
(*    effect the model keeps the parameter values it was built with.        *)
(***************************************************************************)
EXTENDS Integers, Sequences, FiniteSets, TLC

VARIABLES
    effects,      \* EffectChain.effects: Vec<Effect>
    bypassed,     \* EffectChain.bypassed
    registry,     \* EffectChain.registry.is_some()
    sample_rate,  \* EffectChain.sample_rate
    owned,        \* the caller holds the chain: no call has consumed and dropped it
    trace,        \* per stage of the last process call: input, output, unit invoked
    synth_name,   \* PolySynth.synth_name
    voice_params, \* PolySynth.params: the parameters handed to the builder of a new voice
    max_voices,   \* PolySynth.max_voices
    voices,       \* PolySynth.voices: Vec<Voice>
    age_counter,  \* PolySynth.age_counter
    created,      \* number of units SynthRegistry::create has returned so far
    log,          \* the note_on calls since PolySynth::new, while no other call was made
    render,       \* the process call in progress on the render path and its place in the list
    param,        \* a SmoothedParam with its writer on the control path and its reader
    meter,        \* a CpuMeter: its PerformanceMetrics and its time budget per sample
    last          \* the last operation called, its arguments and its result

chainVars == << effects, bypassed, registry, sample_rate, owned >>
polyVars == << synth_name, voice_params, max_voices, voices, age_counter, created, log >>
threadVars == << render, param >>
vars == << effects, bypassed, registry, sample_rate, owned, trace,
           synth_name, voice_params, max_voices, voices, age_counter, created, log,
           render, param, meter, last >>

\* ---------------------------------------------------------------- bounds
MaxChain == 2

\* ---------------------------------------------------------------- values
None == << >>
Some(x) == << x >>
At(s, i) == s[i + 1]
EmptyMap == [k \in {} |-> 0]
Get(map, key, default) == IF key \in DOMAIN map THEN map[key] ELSE default

DefaultSampleRate == 48000
SampleRates == {48000, 44100}
EffectIds == {1}
\* names handed to the registry: three registered builders and one unknown name
EffectNames == {"pan", "vibrato", "nosuch"}
ParamNames == {"pan", "bogus"}
ParamValues == {1}
ParamSlices == {<< >>, << << "pan", 0 >>, << "pan", 1 >> >>}
\* keys of the maps handed to a builder: a parameter that becomes a control
\* and one the builder only builds the unit with; each is a key the other
\* builder does not read
BuildNames == {"pan", "rate"}
ParamMaps == {EmptyMap} \cup {[k \in {n} |-> v] : n \in BuildNames, v \in ParamValues}
Silence == << 0, 0 >>
Samples == {Silence, << 1, 2 >>, << 2, 1 >>}
\* index arguments: every valid index and one past the longest chain
Indices == 0..MaxChain
\* index arguments of the calls on a chain: every index of the longest chain,
\* each of them past the end of a shorter one
Positions == 0..(MaxChain - 1)

\* ---------------------------------------------------------------- f32 and f64
\* The program computes in IEEE 754 binary32 (f32) and binary64 (f64). A float
\* is held here bit for bit as [neg, exp, sig]: the value (-1)^neg * sig * 2^exp,
\* with sig a natural number of p bits (fewer when exp = emin: zero and the
\* subnormals), exp = emax + 1 for the infinities (sig = 2^(p-1)) and the NaNs.
\* Every operation returns the exact result rounded to nearest, ties to even.
\* sig is a little-endian sequence of limbs below 2^14 without leading zero limbs.
Limb == 2 ^ 14
F32 == [ p |-> 24, emin |-> -149, emax |-> 104 ]
F64 == [ p |-> 53, emin |-> -1074, emax |-> 971 ]

Abs(x) == IF x < 0 THEN -x ELSE x
Max(a, b) == IF a > b THEN a ELSE b
Lower(a, b) == IF a < b THEN a ELSE b

\* the highest member of a set of whole numbers that has one
Top(S) == CHOOSE i \in S : \A j \in S : j <= i

BNorm(x) ==
    LET nz == {i \in 1..Len(x) : x[i] # 0} IN
    IF nz = {} THEN << >> ELSE SubSeq(x, 1, Top(nz))

\* n below 2^31 in limbs
BFromInt(n) == BNorm(<< n % Limb, (n \div Limb) % Limb, n \div (Limb * Limb) >>)

\* the bits of a limb
BitLen(n) == CHOOSE k \in 0..14 : n < 2 ^ k /\ (k = 0 \/ n >= 2 ^ (k - 1))

BBitLen(x) == IF x = << >> THEN 0 ELSE 14 * (Len(x) - 1) + BitLen(x[Len(x)])

BLimb(x, i) == IF i >= 1 /\ i <= Len(x) THEN x[i] ELSE 0

\* -1, 0 or 1 as x is below, equal to or above y
BCmp(x, y) ==
    LET diff == {i \in 1..Len(x) : x[i] # y[i]} IN
    IF Len(x) < Len(y) THEN -1
    ELSE IF Len(x) > Len(y) THEN 1
    ELSE IF diff = {} THEN 0
    ELSE IF x[Top(diff)] < y[Top(diff)] THEN -1
    ELSE 1

\* x * 2^(14 * q)
BShiftLimbs(x, q) == IF x = << >> THEN << >> ELSE [i \in 1..q |-> 0] \o x

\* 2^k
BPow2(k) == BShiftLimbs(<< 2 ^ (k % 14) >>, k \div 14)

\* the sums of x and y limb by limb, before any carry
BSums(x, y) == [i \in 1..Max(Len(x), Len(y)) |-> BLimb(x, i) + BLimb(y, i)]

\* the carry into limb i of the sums s: it comes from a limb below it that
\* overflows with every limb between them full
BCarry(s, i) ==
    \E j \in 1..(i - 1) :
        /\ s[j] >= Limb
        /\ \A k \in (j + 1)..(i - 1) : s[k] = Limb - 1

BCarried(s) ==
    BNorm([i \in 1..(Len(s) + 1) |-> (BLimb(s, i) + (IF BCarry(s, i) THEN 1 ELSE 0)) % Limb])

\* x + y
BAdd(x, y) == BCarried(BSums(x, y))

\* the borrow from limb i of x - y: it comes from a limb below it that falls
\* short with every limb between them equal
BBorrow(x, y, i) ==
    \E j \in 1..(i - 1) :
        /\ x[j] < BLimb(y, j)
        /\ \A k \in (j + 1)..(i - 1) : x[k] = BLimb(y, k)

\* x - y for x >= y
BSub(x, y) ==
    BNorm([i \in 1..Len(x) |->
              (Limb + x[i] - BLimb(y, i) - (IF BBorrow(x, y, i) THEN 1 ELSE 0)) % Limb])

\* x * m for m below 2^14: the low limbs of the products plus their high limbs
BMulSmall(x, m) ==
    BAdd([i \in 1..Len(x) |-> (x[i] * m) % Limb],
         BShiftLimbs(BNorm([i \in 1..Len(x) |-> (x[i] * m) \div Limb]), 1))

\* the sums of the products limb by limb of x and y, y of at most four limbs;
\* each sum is below 2^30
BColumns(x, y) ==
    [k \in 1..(Len(x) + 3) |-> BLimb(x, k) * BLimb(y, 1) + BLimb(x, k - 1) * BLimb(y, 2)
                               + BLimb(x, k - 2) * BLimb(y, 3)
                               + BLimb(x, k - 3) * BLimb(y, 4)]

\* the columns added as their low, middle and high limbs
BSumColumns(col) ==
    BAdd(BAdd(BNorm([k \in 1..Len(col) |-> col[k] % Limb]),
              BShiftLimbs(BNorm([k \in 1..Len(col) |-> (col[k] \div Limb) % Limb]), 1)),
         BShiftLimbs(BNorm([k \in 1..Len(col) |-> col[k] \div (Limb * Limb)]), 2))

\* x * y for y of at most four limbs
BMul(x, y) == BSumColumns(BColumns(x, y))

\* x * 2^k: each limb takes the low bits of its own and the high bits of the
\* limb below it
BShiftLeft(x, k) ==
    BShiftLimbs(BNorm([i \in 1..(Len(x) + 1) |->
                          ((BLimb(x, i) * 2 ^ (k % 14)) % Limb)
                          + ((BLimb(x, i - 1) * 2 ^ (k % 14)) \div Limb)]),
                k \div 14)

\* x \div 2^k
BShiftRight(x, k) ==
    BNorm([i \in 1..(Len(x) - k \div 14) |->
              BLimb(x, i + k \div 14) \div 2 ^ (k % 14)
              + (BLimb(x, i + k \div 14 + 1) % 2 ^ (k % 14)) * 2 ^ (14 - (k % 14))])

\* bit k of x, bit 0 the lowest
BBit(x, k) == (BLimb(x, k \div 14 + 1) \div 2 ^ (k % 14)) % 2

\* whether the k low bits of x are all zero
BLowZero(x, k) ==
    /\ \A i \in 1..(k \div 14) : BLimb(x, i) = 0
    /\ BLimb(x, k \div 14 + 1) % 2 ^ (k % 14) = 0

\* one step of the long division by d, whose top limb is 2^13 or above: the
\* quotient so far takes the digit, and the remainder r, with the next limb of
\* the dividend taken in, gives up p, the digit's multiple of d. The guess
\* from the two top limbs of r is the digit or at most two above it.
BDivTake(quot, r, digit, p) == [ quot |-> << digit >> \o quot, rem |-> BSub(r, p) ]

BDivFitLast(quot, r, d, digit, p) ==
    IF BCmp(p, r) # 1 THEN BDivTake(quot, r, digit, p)
    ELSE BDivTake(quot, r, digit - 1, BSub(p, d))

BDivFit(quot, r, d, digit, p) ==
    IF BCmp(p, r) # 1 THEN BDivTake(quot, r, digit, p)
    ELSE BDivFitLast(quot, r, d, digit - 1, BSub(p, d))

BDivGuess(r, d) ==
    Lower((BLimb(r, Len(d) + 1) * Limb + BLimb(r, Len(d))) \div BLimb(d, Len(d)), Limb - 1)

BDivTry(quot, r, d, guess) == BDivFit(quot, r, d, guess, BMulSmall(d, guess))

BDivDigit(quot, r, d) == BDivTry(quot, r, d, BDivGuess(r, d))

BDivStep(qr, limb, d) ==
    IF qr.rem = << >> /\ limb = 0 THEN [ quot |-> << 0 >> \o qr.quot, rem |-> << >> ]
    ELSE BDivDigit(qr.quot, << limb >> \o qr.rem, d)

\* the long division of num by den: the limbs of num are taken in from the
\* top, the first Len(den) - 1 of them as the remainder to start from
BDivSteps(num, den, low) ==
    LET step[i \in 0..low] ==
            IF i = 0 THEN [ quot |-> << >>, rem |-> SubSeq(num, low + 1, Len(num)) ]
            ELSE BDivStep(step[i - 1], BLimb(num, low + 1 - i), den) IN
    step[low]

BDivDone(final, s) == [ quot |-> BNorm(final.quot), rem |-> BShiftRight(final.rem, s) ]

BDivLong(n, num, den, s) ==
    IF Len(num) < Len(den) THEN [ quot |-> << >>, rem |-> n ]
    ELSE BDivDone(BDivSteps(num, den, Len(num) - Len(den) + 1), s)

BDivShifted(n, d, s) == BDivLong(n, BShiftLeft(n, s), BShiftLeft(d, s), s)

\* n \div d and n % d for d above zero, both shifted to bring the top limb of
\* d to 2^13 or above
BDivMod(n, d) == BDivShifted(n, d, 14 - BitLen(BLimb(d, Len(d))))

FZero(fmt, neg) == [ neg |-> neg, exp |-> fmt.emin, sig |-> << >> ]
FInf(fmt, neg) == [ neg |-> neg, exp |-> fmt.emax + 1, sig |-> BPow2(fmt.p - 1) ]
FNaN(fmt) ==
    [ neg |-> FALSE, exp |-> fmt.emax + 1, sig |-> BAdd(BPow2(fmt.p - 1), BPow2(fmt.p - 2)) ]

FIsZero(a) == a.sig = << >>
FIsInf(fmt, a) == a.exp = fmt.emax + 1 /\ BLowZero(a.sig, fmt.p - 1)
FIsNaN(fmt, a) == a.exp = fmt.emax + 1 /\ ~BLowZero(a.sig, fmt.p - 1)

\* the float of a significand that fits, infinity beyond the top exponent
FPack(fmt, neg, exp, sig) ==
    IF exp > fmt.emax THEN FInf(fmt, neg) ELSE [ neg |-> neg, exp |-> exp, sig |-> sig ]

\* the rounded significand r may have reached 2^p
FCarry(fmt, neg, exp, r) ==
    FPack(fmt, neg, IF BBitLen(r) > fmt.p THEN exp + 1 ELSE exp,
          IF BBitLen(r) > fmt.p THEN BShiftRight(r, 1) ELSE r)

\* q is rounded up when the part cut off is above a half, or is a half and q odd
FRoundHalf(fmt, neg, exp, q, half, rest) ==
    FCarry(fmt, neg, exp, IF half /\ (rest \/ BBit(q, 0) = 1) THEN BAdd(q, << 1 >>) ELSE q)

\* shift bits of x are cut off, or x is moved up to the lowest exponent it fits
FRoundAt(fmt, neg, e, x, sticky, shift) ==
    IF shift <= 0 THEN FPack(fmt, neg, e + shift, BShiftLeft(x, -shift))
    ELSE FRoundHalf(fmt, neg, e + shift, BShiftRight(x, shift),
                    BBit(x, shift - 1) = 1, sticky \/ ~BLowZero(x, shift - 1))

\* the float nearest to (-1)^neg * (x + t) * 2^e, ties to even, where t is 0, or
\* when sticky some amount strictly between 0 and 1 (x then has p + 2 bits or more)
FRound(fmt, neg, e, x, sticky) ==
    IF x = << >> THEN FZero(fmt, neg)
    ELSE FRoundAt(fmt, neg, e, x, sticky, Max(BBitLen(x) - fmt.p, fmt.emin - e))

FNeg(a) == [a EXCEPT !.neg = ~@]

\* x and y at the exponent e, c their order: the sum when the signs agree, else
\* the larger less the smaller with the sign of the larger
FAddExact(fmt, a, b, e, x, y, far, c) ==
    FRound(fmt,
           IF a.neg = b.neg \/ far \/ c = 1 THEN a.neg ELSE IF c = 0 THEN FALSE ELSE b.neg,
           e,
           IF a.neg = b.neg THEN BAdd(x, y)
           ELSE BSub(IF far \/ c = 1 THEN x ELSE y,
                     IF far THEN << 1 >> ELSE IF c = 1 THEN y ELSE x),
           far)

FAddShifted(fmt, a, b, e, x, y, far) == FAddExact(fmt, a, b, e, x, y, far, BCmp(x, y))

\* beyond p + 2 places b only decides the rounding: a keeps two guard bits
FAddFar(fmt, a, b, far) ==
    FAddShifted(fmt, a, b, IF far THEN a.exp - 2 ELSE b.exp,
                BShiftLeft(a.sig, IF far THEN 2 ELSE a.exp - b.exp),
                IF far THEN << >> ELSE b.sig, far)

\* a + b for finite a and b with a.exp >= b.exp
FAddOrdered(fmt, a, b) ==
    IF FIsZero(b) THEN (IF FIsZero(a) THEN FZero(fmt, a.neg /\ b.neg) ELSE a)
    ELSE FAddFar(fmt, a, b, a.exp - b.exp > fmt.p + 2)

\* a + b
FAdd(fmt, a, b) ==
    IF FIsNaN(fmt, a) \/ FIsNaN(fmt, b) THEN FNaN(fmt)
    ELSE IF FIsInf(fmt, a)
    THEN (IF FIsInf(fmt, b) /\ a.neg # b.neg THEN FNaN(fmt) ELSE a)
    ELSE IF FIsInf(fmt, b) THEN b
    ELSE IF FIsZero(a) /\ ~FIsZero(b) THEN b
    ELSE FAddOrdered(fmt, IF a.exp >= b.exp THEN a ELSE b, IF a.exp >= b.exp THEN b ELSE a)

\* a - b
FSub(fmt, a, b) == FAdd(fmt, a, FNeg(b))

\* a * b
FMul(fmt, a, b) ==
    IF FIsNaN(fmt, a) \/ FIsNaN(fmt, b) THEN FNaN(fmt)
    ELSE IF FIsInf(fmt, a) \/ FIsInf(fmt, b)
    THEN (IF FIsZero(a) \/ FIsZero(b) THEN FNaN(fmt) ELSE FInf(fmt, a.neg # b.neg))
    ELSE FRound(fmt, a.neg # b.neg, a.exp + b.exp, BMul(a.sig, b.sig), FALSE)

\* the quotient of the significands, a's shifted up by k, rounded with what is
\* left over as the sticky part
FDivExact(fmt, neg, e, qr) == FRound(fmt, neg, e, qr.quot, qr.rem # << >>)

FDivShifted(fmt, a, b, k) ==
    FDivExact(fmt, a.neg # b.neg, a.exp - b.exp - k, BDivMod(BShiftLeft(a.sig, k), b.sig))

\* a / b
FDiv(fmt, a, b) ==
    IF FIsNaN(fmt, a) \/ FIsNaN(fmt, b) THEN FNaN(fmt)
    ELSE IF FIsInf(fmt, a)
    THEN (IF FIsInf(fmt, b) THEN FNaN(fmt) ELSE FInf(fmt, a.neg # b.neg))
    ELSE IF FIsInf(fmt, b) THEN FZero(fmt, a.neg # b.neg)
    ELSE IF FIsZero(b)
    THEN (IF FIsZero(a) THEN FNaN(fmt) ELSE FInf(fmt, a.neg # b.neg))
    ELSE IF FIsZero(a) THEN FZero(fmt, a.neg # b.neg)
    ELSE FDivShifted(fmt, a, b, fmt.p + 2 + BBitLen(b.sig) - BBitLen(a.sig))

\* -1, 0 or 1 as |a| is below, equal to or above |b|
FCmpAbs(a, b) ==
    IF a.exp < b.exp THEN -1 ELSE IF a.exp > b.exp THEN 1 ELSE BCmp(a.sig, b.sig)

\* a < b
FLt(fmt, a, b) ==
    /\ ~FIsNaN(fmt, a) /\ ~FIsNaN(fmt, b)
    /\ ~(FIsZero(a) /\ FIsZero(b))
    /\ IF a.neg # b.neg THEN a.neg
       ELSE FCmpAbs(a, b) = (IF a.neg THEN 1 ELSE -1)

\* a <= b
FLe(fmt, a, b) ==
    /\ ~FIsNaN(fmt, a) /\ ~FIsNaN(fmt, b)
    /\ ~FLt(fmt, b, a)

\* a == b
FEq(fmt, a, b) == FLe(fmt, a, b) /\ FLe(fmt, b, a)

\* |a|
FAbs(a) == [a EXCEPT !.neg = FALSE]

\* n as a float, for an integer n
FFromInt(fmt, n) == FRound(fmt, n < 0, 0, BFromInt(Abs(n)), FALSE)

\* the literal n/d: the float nearest to the quotient of two whole numbers
FRatio(fmt, n, d) == FDiv(fmt, FFromInt(fmt, n), FFromInt(fmt, d))

\* ---------------------------------------------------------------- registry
\* EffectRegistry::register_builtin: the builders the model keeps
Builders == {"pan", "vibrato", "sidechain_compressor"}

\* EffectBuilder::build, the controls half of its result.  PanBuilder exposes
\* the control "pan" (default 0.0), the other two builders expose none.
BuildControls(name, params) ==
    IF name = "pan"
    THEN [k \in {"pan"} |-> Get(params, "pan", 0)]
    ELSE EmptyMap

\* the defaults of the parameters a builder reads without exposing a control
VibratoRate == 500
VibratoDepth == 50
CompressorThreshold == -2000
CompressorRatio == 400
CompressorAttack == 1
CompressorRelease == 10

\* EffectBuilder::build, the unit half of its result: the parameter values the
\* unit is built with, each read from params with the builder's default.
\* PanBuilder builds pan(pan_val) from the value its control starts at; the
\* unit does not read the control afterwards.
BuildProcessor(name, params) ==
    CASE name = "pan" -> [k \in {"pan"} |-> Get(params, "pan", 0)]
      [] name = "vibrato" ->
            [ rate |-> Get(params, "rate", VibratoRate),
              depth |-> Get(params, "depth", VibratoDepth) ]
      [] name = "sidechain_compressor" ->
            [ threshold |-> Get(params, "threshold", CompressorThreshold),
              ratio |-> Get(params, "ratio", CompressorRatio),
              attack |-> Get(params, "attack", CompressorAttack),
              release |-> Get(params, "release", CompressorRelease) ]
      [] OTHER -> EmptyMap

\* EffectBuilder::metadata().latency_samples
VibratoLatency == 441
LatencySamples(name) == IF name = "vibrato" THEN VibratoLatency ELSE 0

\* build_sidechain_effect(name, ..).is_some()
build_sidechain_effect(name) == name \in {"sidechain_compressor", "sidechain_gate"}

\* EffectRegistry::build: Ok for a registered name, Err(InvalidEffect) otherwise
RegistryBuildOk(name) == name \in Builders

\* ---------------------------------------------------------------- voice manager
NoLog == [ fresh |-> FALSE, calls |-> << >> ]

\* the state of a PolySynth no specification of the chain touches
PolyIdle ==
    /\ synth_name = "sine"
    /\ voice_params = EmptyMap
    /\ max_voices = 0
    /\ voices = << >>
    /\ age_counter = 0
    /\ created = 0
    /\ log = NoLog

\* no process call is in progress
NotRendering == [ running |-> FALSE, pos |-> 0, borrowed |-> << >>, visited |-> << >> ]

\* the f32 literals 0.0, 1.0 and 1000.0
Zero32 == FZero(F32, FALSE)
One32 == FFromInt(F32, 1)
Thousand32 == FFromInt(F32, 1000)

\* the value a SmoothedParam starts from (0.0), the values it (0.1, 0.7) and
\* a control (0.7) are set to, and the smoothing times in ms (0.0, 1.442695)
\* and the sample rate in Hz (1000.0) a SmoothedParam is given
InitialValues32 == {Zero32}
ParamValues32 == {FRatio(F32, 1, 10), FRatio(F32, 7, 10)}
ControlValues32 == {FRatio(F32, 7, 10)}
SmoothingMs == {Zero32, FRatio(F32, 1442695, 1000000)}
ParamRates == {FFromInt(F32, 1000)}

\* f32::to_bits as two 16-bit halves, high first: the sign, the 8 bits of the
\* biased exponent and the 23 bits of the fraction
to_bits(v) ==
    LET n == BLimb(v.sig, 1) + BLimb(v.sig, 2) * Limb
        field == IF n < 2 ^ 23 THEN 0 ELSE v.exp + 150
        frac == IF n < 2 ^ 23 THEN n ELSE n - 2 ^ 23 IN
    << (IF v.neg THEN 2 ^ 15 ELSE 0) + field * 2 ^ 7 + frac \div 2 ^ 16, frac % 2 ^ 16 >>

\* f32::from_bits of two 16-bit halves
from_bits(bits) ==
    LET hi == IF Len(bits) = 2 THEN bits[1] ELSE 0
        field == (hi \div 2 ^ 7) % 2 ^ 8
        frac == (hi % 2 ^ 7) * 2 ^ 16 + bits[2] IN
    [ neg |-> hi >= 2 ^ 15,
      exp |-> IF field = 0 THEN F32.emin ELSE field - 150,
      sig |-> BFromInt(IF field = 0 THEN frac ELSE frac + 2 ^ 23) ]

\* `as u64` of a u32 (zero extension to four halves) and `as u32` of a u64
\* (the low two halves)
AsU64(bits32) == << 0, 0 >> \o bits32
AsU32(word) == SubSeq(word, 3, 4)

\* f32::exp, the expf of the platform's C library, at the arguments that
\* smoothing times of 0, 10, 1.442695 and 1.4427 ms lead to at 1 kHz and at
\* 48 kHz: the bits of the argument and of the result (exp(-inf) = 0,
\* exp(-0.1) = 0.90483743, exp(-0.0020833334) = 0.99791884,
\* exp(-0.6931472) = 0.5, ..)
ExpfBits ==
    << 65408, 0 >> :> << 0, 0 >>
    @@ << 48588, 52429 >> :> << 16231, 41837 >>
    @@ << 47880, 34953 >> :> << 16255, 30620 >>
    @@ << 48945, 29208 >> :> << 16128, 0 >>
    @@ << 48236, 38945 >> :> << 16252, 21612 >>
    @@ << 48945, 29168 >> :> << 16128, 20 >>
    @@ << 48236, 38890 >> :> << 16252, 21613 >>
expf(y) == from_bits(ExpfBits[to_bits(y)])

\* smoothing_ms * sample_rate / 1000.0 and (-1.0 / time_constant).exp()
TimeConstant(smoothing_ms, rate) == FDiv(F32, FMul(F32, smoothing_ms, rate), Thousand32)
Coefficient(time_constant) == expf(FDiv(F32, FNeg(One32), time_constant))

\* the controls of an effect with one parameter: EffectControls.params, each
\* Shared an atomic word of 32 bits that holds the bits of its f32
ControlNames == {"pan"}
NewControls(initial) == [name \in ControlNames |-> to_bits(initial)]

\* SmoothedParam::new(initial_value, smoothing_ms, sample_rate): current and
\* target hold the initial value. With it come the controls of an effect, the
\* values written to each atomic word so far (the initial one first), how many
\* of them were stored and how many writes have returned, the number of next()
\* calls, and the two threads, neither of them in a call
NewParam(initial, smoothing_ms, rate) ==
    [ current |-> initial,
      target |-> AsU64(to_bits(initial)),
      time_constant |-> TimeConstant(smoothing_ms, rate),
      coefficient |-> Coefficient(TimeConstant(smoothing_ms, rate)),
      controls |-> NewControls(initial),
      nexts |-> 0,
      written |-> [cell \in {"target"} \cup ControlNames |-> << initial >>],
      stored |-> [cell \in {"target"} \cup ControlNames |-> 1],
      completed |-> [cell \in {"target"} \cup ControlNames |-> 1],
      writer |-> [ pc |-> "idle", cell |-> "target", value |-> initial ],
      reader |-> [ pc |-> "idle", op |-> "none", cell |-> "target", arg |-> Zero32,
                   bits |-> AsU64(to_bits(initial)),
                   saw |-> 1, floor |-> 1, before |-> initial ] ]

\* SmoothedParamBuilder::new().build(): 0.0, 10 ms, 48 kHz
DefaultParam == NewParam(Zero32, FFromInt(F32, 10), FFromInt(F32, 48000))

\* the state of the threads no sequential specification touches
ThreadsIdle ==
    /\ render = NotRendering
    /\ param = DefaultParam

\* the f64 literals 0.0 and 1.0
Zero64 == FZero(F64, FALSE)
One64 == FFromInt(F64, 1)

\* PerformanceMetrics::new: the two times and the two counters are u64, the
\* average time and cpu_usage are f64
NewMetrics ==
    [ avg_sample_time_ns |-> Zero64, peak_sample_time_ns |-> 0, cpu_usage |-> Zero64,
      samples_processed |-> 0, total_time_ns |-> 0 ]

\* the sample rates a meter is given and the times per sample (ns, u64) its
\* clock readings come to; a sample rate is a whole number of Hz, kept as an
\* integer and exact as f64
\* a result that is computed once for each argument of a table, and afresh
\* for any other argument
Memo(table, arg, fresh) == IF arg \in DOMAIN table THEN table[arg] ELSE fresh

\* a sample rate of a whole number of Hz as the f64 a meter is given; the
\* conversion of each rate of a chain and of 1 MHz is computed once
KnownHz == [rate \in SampleRates \cup {1000000} |-> FFromInt(F64, rate)]
Hz(rate) == Memo(KnownHz, rate, FFromInt(F64, rate))

StageNs == 400
RenderTimes == {StageNs}
StageTimes == {StageNs, 20000}
\* the rates (f64) a meter is built with or set to: 1 MHz, 48 kHz and
\* f64::INFINITY, for which 1e9 / rate is 0.0
MeterRates == {Hz(1000000), Hz(48000), FInf(F64, FALSE)}
ElapsedNs == {0, 399, 400, 800, 801}
NumSamples == {0, 1, 2}
KnownRates == {Hz(rate) : rate \in SampleRates} \cup MeterRates
KnownTimes ==
    StageTimes \cup RenderTimes
        \cup {e \div n : e \in ElapsedNs, n \in NumSamples \ {0}}

\* 1_000_000_000.0 / sample_rate
Nanos == 1000000000
TimePerSampleNs(rate) == FDiv(F64, FFromInt(F64, Nanos), rate)


\* the quotient for each rate above is computed once
KnownBudgets == [rate \in KnownRates |-> TimePerSampleNs(rate)]
TimePerSample(rate) == Memo(KnownBudgets, rate, TimePerSampleNs(rate))

\* `time_per_sample as f64` of a u64; the conversion of each time above is
\* computed once
KnownTimesF64 == [ns \in KnownTimes |-> FFromInt(F64, ns)]
AsF64(ns) == Memo(KnownTimesF64, ns, FFromInt(F64, ns))

\* avg_sample_time_ns / time_per_sample_ns; the quotient of each time above by
\* each budget above is computed once
KnownUsages ==
    [tb \in {<< KnownTimesF64[ns], KnownBudgets[rate] >> :
                 ns \in KnownTimes, rate \in KnownRates} |-> FDiv(F64, tb[1], tb[2])]
CpuUsage(avg, budget) == Memo(KnownUsages, << avg, budget >>, FDiv(F64, avg, budget))

\* CpuMeter::new(sample_rate), with the smoothing factor 0.99
SmoothingFactor == FRatio(F64, 99, 100)
NewMeter(rate) ==
    [ metrics |-> NewMetrics, sample_rate |-> rate,
      time_per_sample_ns |-> TimePerSample(rate),
      smoothing_factor |-> SmoothingFactor ]

\* CpuMeter::new(self.sample_rate) of a chain; the meter for each rate of a
\* chain is computed once
KnownMeters == [rate \in SampleRates |-> NewMeter(Hz(rate))]
StageMeter(rate) == Memo(KnownMeters, rate, NewMeter(Hz(rate)))

\* the levels (RMS L, RMS R, Peak L, Peak R) a stage reports before its
\* window has filled
NoLevels == << 0, 0, 0, 0 >>

\* the Effect value add_effect / add_effect_with_id push. A level buffer
\* (Vec<(f32, f32)>) is kept as its runs of equal samples, oldest first:
\* << [sample, count], ... >>
NewEffect(id, name, params, rate) ==
    [ id |-> id,
      name |-> name,
      controls |-> BuildControls(name, params),
      processor |-> BuildProcessor(name, params),
      sidechain_processor |-> build_sidechain_effect(name),
      latency_samples |-> LatencySamples(name),
      bypassed |-> FALSE,
      muted |-> FALSE,
      last_input_levels |-> NoLevels,
      last_output_levels |-> NoLevels,
      input_level_buffer |-> << >>,
      output_level_buffer |-> << >>,
      cpu_meter |-> StageMeter(rate) ]

\* the meter no specification of the chain or the voices touches
MeterIdle == meter = NewMeter(Hz(DefaultSampleRate))

\* ---------------------------------------------------------------- last call
\* the return type in the signature of each operation
ReturnType(op) ==
    CASE op \in {"remove_effect", "set_param", "reorder_effect_by_id",
                 "set_effect_param_by_id",
                 "is_overloaded", "is_moderate", "is_low"} -> "bool"
      [] op \in {"add_effect", "add_effect_with_id", "add", "effect", "from_state",
                 "bypass_effect", "mute_effect"} -> "Result"
      [] op \in {"is_effect_bypassed", "is_effect_muted", "effect_latency",
                 "effect_name", "effect_cpu_usage", "remove_effect_by_id",
                 "note_on"} -> "Option"
      [] OTHER -> "value"

\* the record of a call: its arguments, whether it succeeded (true, Ok or
\* Some), the value it carried and the type it returned
Call(op, index, name, flag, value, ok, ret) ==
    [ op |-> op, index |-> index, name |-> name, flag |-> flag,
      value |-> value, ok |-> ok, ret |-> ret, returns |-> ReturnType(op) ]

NoCall == Call("new", 0, "", FALSE, 0, TRUE, None)

\* what the last process call saw: nothing when the last call was another one
NoTrace == [ input |-> Silence, sidechain |-> None, stages |-> << >>, output |-> Silence ]

\* ---------------------------------------------------------------- operations
\* AddEffect with the new effect pushed before the registry is asked
AddEffect_PushBeforeBuild(effs, hasRegistry, id, name, params, rate) ==
    IF hasRegistry /\ RegistryBuildOk(name)
    THEN << TRUE, Append(effs, NewEffect(id, name, params, rate)), Some(Len(effs)) >>
    ELSE << FALSE, Append(effs, NewEffect(id, name, params, rate)), None >>

\* AddEffect returning effects.len() after the push
AddEffect_ReturnsLen(effs, hasRegistry, id, name, params, rate) ==
    IF hasRegistry /\ RegistryBuildOk(name)
    THEN << TRUE, Append(effs, NewEffect(id, name, params, rate)), Some(Len(effs) + 1) >>
    ELSE << FALSE, effs, None >>

\* EffectChain::add_effect / add_effect_with_id on a chain value: the result
\* is << ok, effects', index >>
AddEffect(effs, hasRegistry, id, name, params, rate) ==
    IF hasRegistry /\ RegistryBuildOk(name)
    THEN << TRUE, Append(effs, NewEffect(id, name, params, rate)), Some(Len(effs)) >>
    ELSE << FALSE, effs, None >>

\* EffectChain::add_effect; a call that pushes is taken while the list is
\* shorter than MaxChain, here and in the wrappers below
add_effect(name, params) ==
    LET r == AddEffect(effects, registry, None, name, params, sample_rate) IN
    /\ (Len(effects) < MaxChain \/ ~(registry /\ RegistryBuildOk(name)))
    /\ effects' = r[2]
    /\ last' = Call("add_effect", 0, name, FALSE, 0, r[1], r[3])
    /\ trace' = NoTrace
    /\ UNCHANGED << polyVars, threadVars, meter >>
    /\ UNCHANGED << bypassed, registry, owned, sample_rate >>

\* params.iter().map(..).collect(): the HashMap of a slice of pairs, a later
\* pair replacing an earlier one with the same key
RECURSIVE CollectParams(_, _)
CollectParams(pairs, k) ==
    IF k = 0 THEN EmptyMap
    ELSE LET m == CollectParams(pairs, k - 1) IN
         [n \in DOMAIN m \cup {pairs[k][1]} |->
            IF n = pairs[k][1] THEN pairs[k][2] ELSE m[n]]

\* EffectChain::add, the borrowing wrapper of add_effect
add(name, pairs) ==
    LET r == AddEffect(effects, registry, None, name, CollectParams(pairs, Len(pairs)),
                       sample_rate) IN
    /\ (Len(effects) < MaxChain \/ ~(registry /\ RegistryBuildOk(name)))
    /\ effects' = r[2]
    /\ last' = Call("add", 0, name, FALSE, 0, r[1], None)
    /\ trace' = NoTrace
    /\ UNCHANGED << polyVars, threadVars, meter >>
    /\ UNCHANGED << bypassed, registry, owned, sample_rate >>

\* EffectChain::effect, the builder-style wrapper of add_effect: it takes the
\* chain by value and hands it back inside Ok. On Err the `?` returns the
\* error alone and the chain the call was given is dropped with it: the
\* caller no longer holds a chain, and the other variables keep the fields it
\* had when it was dropped
effect(name, pairs) ==
    LET r == AddEffect(effects, registry, None, name, CollectParams(pairs, Len(pairs)),
                       sample_rate) IN
    /\ (Len(effects) < MaxChain \/ ~(registry /\ RegistryBuildOk(name)))
    /\ effects' = r[2]
    /\ owned' = r[1]
    /\ last' = Call("effect", 0, name, FALSE, 0, r[1], None)
    /\ trace' = NoTrace
    /\ UNCHANGED << polyVars, threadVars, meter >>
    /\ UNCHANGED << bypassed, registry, sample_rate >>

add_effect_with_id(id, name, params) ==
    LET r == AddEffect(effects, registry, Some(id), name, params, sample_rate) IN
    /\ (Len(effects) < MaxChain \/ ~(registry /\ RegistryBuildOk(name)))
    /\ effects' = r[2]
    /\ last' = Call("add_effect_with_id", 0, name, FALSE, id, r[1], r[3])
    /\ trace' = NoTrace
    /\ UNCHANGED << polyVars, threadVars, meter >>
    /\ UNCHANGED << bypassed, registry, owned, sample_rate >>

\* Vec::remove(index)
RemoveAt(s, i) == [k \in 1..(Len(s) - 1) |-> IF k <= i THEN s[k] ELSE s[k + 1]]

\* Vec::insert(index, element)
InsertAt(s, i, e) ==
    [k \in 1..(Len(s) + 1) |-> IF k <= i THEN s[k] ELSE IF k = i + 1 THEN e ELSE s[k - 1]]

\* EffectChain::find_effect_index: position of the first effect with the id
find_effect_index(effs, id) ==
    IF \E k \in 1..Len(effs) : effs[k].id = Some(id)
    THEN Some((CHOOSE k \in 1..Len(effs) :
                  /\ effs[k].id = Some(id)
                  /\ \A j \in 1..(k - 1) : effs[j].id # Some(id)) - 1)
    ELSE None

\* EffectChain::remove_effect_by_id
remove_effect_by_id(id) ==
    LET found == find_effect_index(effects, id) IN
    /\ effects' = IF found # None THEN RemoveAt(effects, found[1]) ELSE effects
    /\ last' = Call("remove_effect_by_id", 0, "", FALSE, id, found # None, found)
    /\ trace' = NoTrace
    /\ UNCHANGED << polyVars, threadVars, meter >>
    /\ UNCHANGED << bypassed, registry, owned, sample_rate >>

\* Reorder that exchanges the two positions
Reorder_Swap(effs, old_index, new_index) ==
    [effs EXCEPT ![old_index + 1] = effs[new_index + 1],
                 ![new_index + 1] = effs[old_index + 1]]

\* the list after reorder_effect_by_id: remove(old_index), insert(new_index)
Reorder(effs, old_index, new_index) ==
    InsertAt(RemoveAt(effs, old_index), new_index, effs[old_index + 1])

\* EffectChain::reorder_effect_by_id
reorder_effect_by_id(id, new_index) ==
    LET found == find_effect_index(effects, id)
        moved == found # None /\ new_index < Len(effects) IN
    /\ effects' = IF moved THEN Reorder(effects, found[1], new_index) ELSE effects
    /\ last' = Call("reorder_effect_by_id", new_index, "", FALSE, id, moved, found)
    /\ trace' = NoTrace
    /\ UNCHANGED << polyVars, threadVars, meter >>
    /\ UNCHANGED << bypassed, registry, owned, sample_rate >>

\* EffectChain::remove_effect
remove_effect(index) ==
    /\ effects' = IF index < Len(effects) THEN RemoveAt(effects, index) ELSE effects
    /\ last' = Call("remove_effect", index, "", FALSE, 0, index < Len(effects), None)
    /\ trace' = NoTrace
    /\ UNCHANGED << polyVars, threadVars, meter >>
    /\ UNCHANGED << bypassed, registry, owned, sample_rate >>

\* ControlsSet that inserts the name when it is not a key
ControlsSet_Inserts(controls, name, value) ==
    [k \in DOMAIN controls \cup {name} |-> IF k = name THEN value ELSE controls[k]]

\* EffectControls::set: writes the Shared when the name is a key, else nothing
ControlsSet(controls, name, value) ==
    IF name \in DOMAIN controls THEN [controls EXCEPT ![name] = value] ELSE controls

\* EffectChain::set_param
set_param(index, name, value) ==
    /\ effects' = IF index < Len(effects)
                  THEN [effects EXCEPT ![index + 1].controls =
                            ControlsSet(@, name, value)]
                  ELSE effects
    /\ last' = Call("set_param", index, name, FALSE, value, index < Len(effects), None)
    /\ trace' = NoTrace
    /\ UNCHANGED << polyVars, threadVars, meter >>
    /\ UNCHANGED << bypassed, registry, owned, sample_rate >>

\* EffectChain::set_effect_param_by_id: set_param at the index of the first
\* effect with the id, false when no effect has it
set_effect_param_by_id(id, name, value) ==
    LET found == find_effect_index(effects, id) IN
    /\ effects' = IF found # None
                  THEN [effects EXCEPT ![found[1] + 1].controls =
                            ControlsSet(@, name, value)]
                  ELSE effects
    /\ last' = Call("set_effect_param_by_id", 0, name, FALSE, id, found # None, found)
    /\ trace' = NoTrace
    /\ UNCHANGED << polyVars, threadVars, meter >>
    /\ UNCHANGED << bypassed, registry, owned, sample_rate >>

\* EffectChain::set_sample_rate: the rate of the chain, read by later
\* add_effect calls; the effects already in the list keep their meters
set_sample_rate(rate) ==
    /\ sample_rate' = rate
    /\ last' = Call("set_sample_rate", 0, "", FALSE, rate, TRUE, None)
    /\ trace' = NoTrace
    /\ UNCHANGED << polyVars, threadVars, meter >>
    /\ UNCHANGED << effects, bypassed, registry, owned >>

\* EffectChain::bypass_effect
bypass_effect(index, flag) ==
    /\ effects' = IF index < Len(effects)
                  THEN [effects EXCEPT ![index + 1].bypassed = flag]
                  ELSE effects
    /\ last' = Call("bypass_effect", index, "", flag, 0, index < Len(effects), None)
    /\ trace' = NoTrace
    /\ UNCHANGED << polyVars, threadVars, meter >>
    /\ UNCHANGED << bypassed, registry, owned, sample_rate >>

\* EffectChain::mute_effect
mute_effect(index, flag) ==
    /\ effects' = IF index < Len(effects)
                  THEN [effects EXCEPT ![index + 1].muted = flag]
                  ELSE effects
    /\ last' = Call("mute_effect", index, "", flag, 0, index < Len(effects), None)
    /\ trace' = NoTrace
    /\ UNCHANGED << polyVars, threadVars, meter >>
    /\ UNCHANGED << bypassed, registry, owned, sample_rate >>

\* a read-only call: it records what it returned and changes nothing
Query(op, index, ret) ==
    /\ last' = Call(op, index, "", FALSE, 0, ret # None, ret)
    /\ trace' = NoTrace
    /\ UNCHANGED << polyVars, threadVars, meter >>
    /\ UNCHANGED << effects, bypassed, registry, owned, sample_rate >>

\* EffectChain::is_effect_bypassed, is_effect_muted, effect_latency,
\* effect_name: effects.get(index).map(field)
is_effect_bypassed(index) ==
    Query("is_effect_bypassed", index,
          IF index >= Len(effects) THEN None ELSE Some(effects[index + 1].bypassed))

is_effect_muted(index) ==
    Query("is_effect_muted", index,
          IF index >= Len(effects) THEN None ELSE Some(effects[index + 1].muted))

effect_latency(index) ==
    Query("effect_latency", index,
          IF index >= Len(effects) THEN None ELSE Some(effects[index + 1].latency_samples))

effect_name(index) ==
    Query("effect_name", index,
          IF index >= Len(effects) THEN None ELSE Some(effects[index + 1].name))

\* EffectChain::effect_cpu_usage: effects.get(index).map(cpu_meter.metrics().cpu_usage)
effect_cpu_usage(index) ==
    Query("effect_cpu_usage", index,
          IF index >= Len(effects) THEN None
          ELSE Some(effects[index + 1].cpu_meter.metrics.cpu_usage))

RECURSIVE TotalLatency_CountsBypassed(_)
RECURSIVE TotalLatency(_)
\* TotalLatency that also counts the stages that are bypassed
TotalLatency_CountsBypassed(effs) ==
    IF effs = << >> THEN 0
    ELSE effs[1].latency_samples + TotalLatency_CountsBypassed(Tail(effs))

\* effects.iter().filter(|e| !e.bypassed).map(|e| e.latency_samples).sum()
TotalLatency(effs) ==
    IF effs = << >> THEN 0
    ELSE (IF ~effs[1].bypassed THEN effs[1].latency_samples ELSE 0)
            + TotalLatency(Tail(effs))

\* EffectChain::total_latency
total_latency ==
    /\ last' = Call("total_latency", 0, "", FALSE, 0, TRUE, Some(TotalLatency(effects)))
    /\ trace' = NoTrace
    /\ UNCHANGED << polyVars, threadVars, meter >>
    /\ UNCHANGED << effects, bypassed, registry, owned, sample_rate >>

\* EffectChain::set_bypass
set_bypass(flag) ==
    /\ bypassed' = flag
    /\ last' = Call("set_bypass", 0, "", flag, 0, TRUE, None)
    /\ trace' = NoTrace
    /\ UNCHANGED << polyVars, threadVars, meter >>
    /\ UNCHANGED << effects, registry, owned, sample_rate >>

\* EffectChain::clear
clear ==
    /\ effects' = << >>
    /\ last' = Call("clear", 0, "", FALSE, 0, TRUE, None)
    /\ trace' = NoTrace
    /\ UNCHANGED << polyVars, threadVars, meter >>
    /\ UNCHANGED << bypassed, registry, owned, sample_rate >>

\* ---------------------------------------------------------------- persistence
\* EffectState built by to_state for one effect: the parameters are the
\* current values of the controls
EffectStateOf(e) ==
    [ id |-> e.id, name |-> e.name, parameters |-> e.controls,
      bypassed |-> e.bypassed, muted |-> e.muted ]

\* EffectChain::to_state
to_state(effs, byp, rate) ==
    [ sample_rate |-> rate, bypassed |-> byp,
      effects |-> [k \in 1..Len(effs) |-> EffectStateOf(effs[k])] ]

\* the loop of from_state over state.effects[k..]: << ok, effects >>; an add
\* that fails returns at once with the list rebuilt so far
RECURSIVE FromStateLoop(_, _, _, _, _)
FromStateTurn(effs, hasRegistry, states, k, rate, es, r) ==
    IF ~r[1] THEN << FALSE, effs >>
    ELSE FromStateLoop(
            IF r[3][1] < Len(r[2])
            THEN [r[2] EXCEPT ![r[3][1] + 1].bypassed = es.bypassed,
                              ![r[3][1] + 1].muted = es.muted]
            ELSE r[2],
            hasRegistry, states, k + 1, rate)

FromStateLoop(effs, hasRegistry, states, k, rate) ==
    IF k > Len(states) THEN << TRUE, effs >>
    ELSE FromStateTurn(effs, hasRegistry, states, k, rate, states[k],
                       AddEffect(effs, hasRegistry, states[k].id, states[k].name,
                                 states[k].parameters, rate))

\* EffectChain::from_state
Restored(r, state) ==
    [ ok |-> r[1], effects |-> r[2],
      bypassed |-> state.bypassed, sample_rate |-> state.sample_rate ]

FromState(hasRegistry, state) ==
    Restored(FromStateLoop(<< >>, hasRegistry, state.effects, 1, state.sample_rate), state)

\* chain states handed to from_state that were not taken from this chain
StoredStates ==
    { [ sample_rate |-> 44100, bypassed |-> TRUE,
        effects |-> << [ id |-> None, name |-> "vibrato", parameters |-> EmptyMap,
                         bypassed |-> FALSE, muted |-> TRUE ] >> ],
      [ sample_rate |-> 44100, bypassed |-> TRUE,
        effects |-> << [ id |-> Some(1), name |-> "pan",
                         parameters |-> [k \in {"pan"} |-> 1],
                         bypassed |-> TRUE, muted |-> FALSE ],
                       [ id |-> None, name |-> "nosuch", parameters |-> EmptyMap,
                         bypassed |-> FALSE, muted |-> FALSE ] >> ] }

\* the parameter values of a stage: the values its unit was built with, and
\* for a parameter that has a control the value the control holds now
Parameters(e) ==
    [n \in DOMAIN e.processor \cup DOMAIN e.controls |->
        IF n \in DOMAIN e.controls THEN e.controls[n] ELSE e.processor[n]]

\* from_state(&self.to_state()): last.flag is TRUE for this round trip, and
\* last.value holds the parameter values of each stage of the list the state
\* was taken from
from_state_roundtrip ==
    LET r == FromState(registry, to_state(effects, bypassed, sample_rate)) IN
    /\ effects' = r.effects
    /\ bypassed' = r.bypassed
    /\ sample_rate' = r.sample_rate
    /\ last' = Call("from_state", 0, "", TRUE,
                    [k \in 1..Len(effects) |-> Parameters(effects[k])], r.ok, None)
    /\ trace' = NoTrace
    /\ UNCHANGED << polyVars, threadVars, meter >>
    /\ UNCHANGED << registry, owned >>

\* from_state(&state) for a stored state
from_state(state) ==
    LET r == FromState(registry, state) IN
    /\ effects' = r.effects
    /\ bypassed' = r.bypassed
    /\ sample_rate' = r.sample_rate
    /\ last' = Call("from_state", 0, "", FALSE, 0, r.ok, None)
    /\ trace' = NoTrace
    /\ UNCHANGED << polyVars, threadVars, meter >>
    /\ UNCHANGED << registry, owned >>

\* EffectChain::new: an empty chain without a registry, at the default
\* sample rate; the caller holds it in place of the chain it had
new ==
    /\ effects' = << >>
    /\ bypassed' = FALSE
    /\ registry' = FALSE
    /\ sample_rate' = DefaultSampleRate
    /\ owned' = TRUE
    /\ last' = Call("new", 0, "", FALSE, 0, TRUE, None)
    /\ trace' = NoTrace
    /\ UNCHANGED << polyVars, threadVars, meter >>

\* EffectChain::with_registry / with_shared_registry: an empty chain that
\* holds the registry of the built-in effects
with_registry ==
    /\ effects' = << >>
    /\ bypassed' = FALSE
    /\ registry' = TRUE
    /\ sample_rate' = DefaultSampleRate
    /\ owned' = TRUE
    /\ last' = Call("with_registry", 0, "", FALSE, 0, TRUE, None)
    /\ trace' = NoTrace
    /\ UNCHANGED << polyVars, threadVars, meter >>

\* EffectChain::registry(self, registry): the builder-style setter, which
\* hands the chain back with the registry of the built-in effects in place of
\* the one it had, if any
EffectChain_registry ==
    /\ registry' = TRUE
    /\ last' = Call("registry", 0, "", FALSE, 0, TRUE, None)
    /\ trace' = NoTrace
    /\ UNCHANGED << polyVars, threadVars, meter >>
    /\ UNCHANGED << effects, bypassed, sample_rate, owned >>

\* EffectChain::with_sample_rate(self, sample_rate): the builder-style setter
with_sample_rate(rate) ==
    /\ sample_rate' = rate
    /\ last' = Call("with_sample_rate", 0, "", FALSE, rate, TRUE, None)
    /\ trace' = NoTrace
    /\ UNCHANGED << polyVars, threadVars, meter >>
    /\ UNCHANGED << effects, bypassed, registry, owned >>

ChainInit ==
    /\ effects = << >>
    /\ bypassed = FALSE
    /\ registry \in BOOLEAN
    /\ owned = TRUE
    /\ sample_rate = DefaultSampleRate
    /\ trace = NoTrace
    /\ last = NoCall
    /\ PolyIdle
    /\ ThreadsIdle
    /\ MeterIdle

\* a method is called on the chain the caller holds; after a failed `effect`
\* there is none until a constructor returns a new one
ChainNext ==
    \/ new
    \/ with_registry
    \/ owned /\ EffectChain_registry
    \/ owned /\ \E rate \in SampleRates : with_sample_rate(rate)
    \/ owned /\ \E n \in EffectNames, p \in ParamSlices : effect(n, p)
    \/ owned /\ \E n \in EffectNames, p \in ParamMaps : add_effect(n, p)
    \/ owned /\ \E i \in EffectIds, n \in EffectNames, p \in ParamMaps :
                   add_effect_with_id(i, n, p)
    \/ owned /\ \E n \in EffectNames, p \in ParamSlices : add(n, p)
    \/ owned /\ \E i \in Positions : remove_effect(i)
    \/ owned /\ \E i \in Positions, n \in ControlNames, v \in ParamValues : set_param(i, n, v)
    \/ owned /\ \E id \in EffectIds, n \in ControlNames, v \in ParamValues :
                   set_effect_param_by_id(id, n, v)
    \/ owned /\ \E i \in Positions, f \in BOOLEAN : bypass_effect(i, f)
    \/ owned /\ \E i \in Positions, f \in BOOLEAN : mute_effect(i, f)
    \/ owned /\ \E f \in BOOLEAN : set_bypass(f)
    \/ owned /\ \E rate \in SampleRates : set_sample_rate(rate)
    \/ owned /\ clear
    \/ owned /\ from_state_roundtrip
    \/ owned /\ \E st \in StoredStates : from_state(st)

\* ---------------------------------------------------------------- render path
\* StageOutput that runs the unit of a bypassed stage
StageOutput_IgnoresBypass(e, cur, answer) ==
    IF e.muted THEN Silence ELSE answer

\* StageOutput that tests bypassed before muted
StageOutput_BypassFirst(e, cur, answer) ==
    IF e.bypassed THEN cur
    ELSE IF e.muted THEN Silence
    ELSE answer

\* StageOutput that passes the input on when the stage's meter reports more
\* than 0.8 of the budget
StageOutput_SkipsWhenOverloaded(e, cur, answer) ==
    IF FLt(F64, FRatio(F64, 8, 10), e.cpu_meter.metrics.cpu_usage) THEN cur
    ELSE IF e.muted THEN Silence
    ELSE IF ~e.bypassed THEN answer
    ELSE cur

\* one iteration of the loop of process_with_sidechain, the sample a stage
\* hands on: silence when muted, else the answer of its unit when not
\* bypassed, else its input
StageOutput(e, cur, answer) ==
    IF e.muted THEN Silence
    ELSE IF ~e.bypassed THEN answer
    ELSE cur

\* StageUnit that takes the sidechain processor of every stage that owns one
StageUnit_WheneverOwned(e, sidechain) ==
    IF e.muted \/ e.bypassed THEN "none"
    ELSE IF e.sidechain_processor THEN "sidechain_processor"
    ELSE "processor"

\* the unit the iteration invokes (and times with the CPU meter)
StageUnit(e, sidechain) ==
    IF e.muted \/ e.bypassed THEN "none"
    ELSE IF e.sidechain_processor /\ sidechain # None THEN "sidechain_processor"
    ELSE "processor"

\* the capacity of a level buffer: the 2048 of `len() > 2048` and `len() >= 2048`
LevelWindow == 2048

\* Vec::len of a level buffer
RECURSIVE BufferLen(_)
BufferLen(buf) == IF buf = << >> THEN 0 ELSE buf[1].count + BufferLen(Tail(buf))

\* Vec::push(sample)
PushSample(buf, x) ==
    IF buf # << >> /\ buf[Len(buf)].sample = x
    THEN [buf EXCEPT ![Len(buf)].count = @ + 1]
    ELSE Append(buf, [ sample |-> x, count |-> 1 ])

\* Vec::remove(0): the oldest sample leaves
RemoveOldest(buf) ==
    IF buf[1].count = 1 THEN Tail(buf) ELSE [buf EXCEPT ![1].count = @ - 1]

ISqrt(x) == CHOOSE r \in 0..x : r * r <= x /\ (r + 1) * (r + 1) > x

\* the sums and maxima of the loop of calculate_buffer_levels over the runs
\* from k on: << sum_sq_l, sum_sq_r, peak_l, peak_r >>
RECURSIVE BufferSums(_, _)
BufferSums(buf, k) ==
    IF k > Len(buf) THEN << 0, 0, 0, 0 >>
    ELSE LET rest == BufferSums(buf, k + 1)
             x == buf[k].sample IN
         << buf[k].count * x[1] * x[1] + rest[1],
            buf[k].count * x[2] * x[2] + rest[2],
            Max(Abs(x[1]), rest[3]),
            Max(Abs(x[2]), rest[4]) >>

\* calculate_buffer_levels: (rms_l, rms_r, peak_l, peak_r) in hundredths of
\* the sample unit
calculate_buffer_levels(buf) ==
    IF buf = << >> THEN NoLevels
    ELSE LET t == BufferSums(buf, 1)
             count == BufferLen(buf) IN
         << ISqrt((t[1] * 10000) \div count), ISqrt((t[2] * 10000) \div count),
            t[3] * 100, t[4] * 100 >>

\* one capture of a sample by the loop of process_with_sidechain: the push,
\* the removal of the oldest sample above 2048, and the recomputation of the
\* levels at 2048 samples or more
RecordLevel(buf, levels, x) ==
    LET pushed == PushSample(buf, x)
        kept == IF BufferLen(pushed) > LevelWindow THEN RemoveOldest(pushed) ELSE pushed
        recomputed == BufferLen(kept) >= LevelWindow IN
    [ buffer |-> kept,
      levels |-> IF recomputed THEN calculate_buffer_levels(kept) ELSE levels,
      recomputed |-> recomputed ]

\* the samples the iteration adds to the stage's cpu_meter: stop_timing(start, 1)
\* runs in the branch that invokes a unit, and nowhere else
StageTimed(e) == IF e.muted \/ e.bypassed THEN 0 ELSE 1

\* the loop over effects[k..]; answers[k] is what the unit of stage k returns
\* if it is invoked
RECURSIVE RunStages(_, _, _, _, _)
RunStages(effs, k, cur, sidechain, answers) ==
    IF k > Len(effs) THEN << >>
    ELSE LET out == StageOutput(effs[k], cur, answers[k]) IN
         << [ input |-> cur, output |-> out, unit |-> StageUnit(effs[k], sidechain),
              timed |-> StageTimed(effs[k]),
              recomputed |-> RecordLevel(effs[k].input_level_buffer,
                                         effs[k].last_input_levels, cur).recomputed ] >>
            \o RunStages(effs, k + 1, out, sidechain, answers)

\* ProcessChain without the test of the chain's bypassed flag
ProcessChain_IgnoresChainBypass(effs, byp, input, sidechain, answers) ==
    IF effs = << >>
    THEN [ stages |-> << >>, output |-> input ]
    ELSE LET st == RunStages(effs, 1, input, sidechain, answers) IN
         [ stages |-> st, output |-> st[Len(st)].output ]

\* EffectChain::process_with_sidechain as a function of the chain: the stages
\* it ran and the sample it returns
ProcessChain(effs, byp, input, sidechain, answers) ==
    IF byp \/ effs = << >>
    THEN [ stages |-> << >>, output |-> input ]
    ELSE LET st == RunStages(effs, 1, input, sidechain, answers) IN
         [ stages |-> st, output |-> st[Len(st)].output ]

\* the record of a process call: its arguments and what ProcessChain did
Traced(input, sidechain, r) ==
    [ input |-> input, sidechain |-> sidechain, stages |-> r.stages,
      output |-> r.output ]

RenderNames == {"pan", "sidechain_compressor"}

RenderInit ==
    /\ effects = << >>
    /\ bypassed = FALSE
    /\ registry = TRUE
    /\ owned = TRUE
    /\ sample_rate = DefaultSampleRate
    /\ trace = NoTrace
    /\ last = NoCall
    /\ PolyIdle
    /\ ThreadsIdle
    /\ MeterIdle

\* ---------------------------------------------------------------- CPU meter
MaxSamples == 3
\* cpu_usage values a PerformanceMetrics is given directly (the field is
\* public): numbers on, next to and away from both bounds, written in
\* thousandths, and NaN; and the arguments of set_smoothing: below, inside
\* and above its range
UsageThousandths == {0, 399, 400, 600, 800, 801, 1200}
UsageValues == {FRatio(F64, usage, 1000) : usage \in UsageThousandths} \cup {FNaN(F64)}
SmoothingArgs == {FFromInt(F64, -1), FRatio(F64, 1, 2), FFromInt(F64, 1)}
Overload == FRatio(F64, 8, 10)
Moderate == FRatio(F64, 4, 10)

\* PerformanceMetrics::is_overloaded: cpu_usage > 0.8
is_overloaded(m) == FLt(F64, Overload, m.cpu_usage)

\* is_moderate with both bounds excluded
is_moderate_Open(m) == FLt(F64, Moderate, m.cpu_usage) /\ FLt(F64, m.cpu_usage, Overload)

\* PerformanceMetrics::is_moderate: 0.4 <= cpu_usage <= 0.8
is_moderate(m) == FLe(F64, Moderate, m.cpu_usage) /\ FLe(F64, m.cpu_usage, Overload)

\* PerformanceMetrics::is_low: cpu_usage < 0.4
is_low(m) == FLt(F64, m.cpu_usage, Moderate)

\* StopTiming that counts the call, not its samples, and times a call of no
\* samples
StopTiming_CountsCalls(mt, elapsed, num_samples) ==
    [mt EXCEPT !.metrics.samples_processed = @ + 1,
               !.metrics.total_time_ns = @ + elapsed]

\* CpuMeter::stop_timing on the meter, for the elapsed time the clock gave:
\* the average time per sample (SmoothedTime: the first measurement as it is,
\* a later one smoothed in), the counters and the peak in u64 and the usage in
\* f64 (Measured)
SmoothedTime(avg, factor, time) ==
    IF FIsZero(avg) THEN time
    ELSE FAdd(F64, FMul(F64, avg, factor), FMul(F64, time, FSub(F64, One64, factor)))

Measured(mt, elapsed, num_samples, time_per_sample, avg) ==
    [mt EXCEPT !.metrics =
        [ samples_processed |-> mt.metrics.samples_processed + num_samples,
          total_time_ns |-> mt.metrics.total_time_ns + elapsed,
          peak_sample_time_ns |-> IF time_per_sample > mt.metrics.peak_sample_time_ns
                                  THEN time_per_sample
                                  ELSE mt.metrics.peak_sample_time_ns,
          avg_sample_time_ns |-> avg,
          cpu_usage |-> CpuUsage(avg, mt.time_per_sample_ns) ]]

StopTiming(mt, elapsed, num_samples) ==
    IF num_samples = 0 THEN mt
    ELSE Measured(mt, elapsed, num_samples, elapsed \div num_samples,
                  SmoothedTime(mt.metrics.avg_sample_time_ns, mt.smoothing_factor,
                               AsF64(elapsed \div num_samples)))

stop_timing(elapsed, num_samples) ==
    /\ meter.metrics.samples_processed + num_samples <= MaxSamples
    /\ meter' = StopTiming(meter, elapsed, num_samples)
    /\ last' = Call("stop_timing", num_samples, "", FALSE, elapsed, TRUE, None)
    /\ UNCHANGED << chainVars, polyVars, trace, threadVars >>

\* CpuMeter::reset
reset ==
    /\ meter' = [meter EXCEPT !.metrics = NewMetrics]
    /\ last' = Call("reset", 0, "", FALSE, 0, TRUE, None)
    /\ UNCHANGED << chainVars, polyVars, trace, threadVars >>

\* CpuMeter::set_sample_rate: the rate and the budget per sample; the metrics
\* stay as they are
CpuMeter_set_sample_rate(rate) ==
    /\ meter' = [meter EXCEPT !.sample_rate = rate,
                              !.time_per_sample_ns = TimePerSample(rate)]
    /\ last' = Call("CpuMeter_set_sample_rate", 0, "", FALSE, rate, TRUE, None)
    /\ UNCHANGED << chainVars, polyVars, trace, threadVars >>

\* f64::clamp(min, max)
Clamp(fmt, a, min, max) ==
    IF FLt(fmt, a, min) THEN min
    ELSE IF FLt(fmt, max, a) THEN max
    ELSE a

\* CpuMeter::set_smoothing: factor.clamp(0.0, 0.999)
MaxSmoothing == FRatio(F64, 999, 1000)
set_smoothing(factor) ==
    /\ meter' = [meter EXCEPT !.smoothing_factor = Clamp(F64, factor, Zero64, MaxSmoothing)]
    /\ last' = Call("set_smoothing", 0, "", FALSE, factor, TRUE, None)
    /\ UNCHANGED << chainVars, polyVars, trace, threadVars >>

\* meter.metrics().is_overloaded(), .is_moderate(), .is_low()
classify(op) ==
    /\ last' = Call(op, 0, "", FALSE, meter.metrics.cpu_usage,
                    CASE op = "is_overloaded" -> is_overloaded(meter.metrics)
                      [] op = "is_moderate" -> is_moderate(meter.metrics)
                      [] op = "is_low" -> is_low(meter.metrics),
                    None)
    /\ UNCHANGED << chainVars, polyVars, trace, threadVars, meter >>

\* a meter whose metrics start as PerformanceMetrics::new() with cpu_usage set
MeterInit ==
    /\ \E rate \in MeterRates, usage \in UsageValues :
          meter = [NewMeter(rate) EXCEPT !.metrics.cpu_usage = usage]
    /\ ThreadsIdle
    /\ effects = << >>
    /\ bypassed = FALSE
    /\ registry = FALSE
    /\ owned = TRUE
    /\ sample_rate = DefaultSampleRate
    /\ trace = NoTrace
    /\ last = NoCall
    /\ PolyIdle

MeterNext ==
    \/ \E e \in ElapsedNs, n \in NumSamples : stop_timing(e, n)
    \/ reset
    \/ \E rate \in MeterRates : CpuMeter_set_sample_rate(rate)
    \/ \E factor \in SmoothingArgs : set_smoothing(factor)
    \/ \E op \in {"is_overloaded", "is_moderate", "is_low"} : classify(op)

SpecMeter == MeterInit /\ [][MeterNext]_vars

\* ---------------------------------------------------------------- stage metering
MaxCalls == 2050
\* the samples of a steady signal and of one that starts with an impulse, the
\* answer of a unit, and the time the clock gives for one invocation
SteadySample == << 1, 2 >>
ImpulseSample == << 3, 4 >>
UnitAnswers == {<< 2, 1 >>}

\* one iteration of the loop of process_with_sidechain on the metering fields
\* of its stage: the input capture, the timing of the unit when one is
\* invoked, the output capture
MeterStage(e, cur, out, elapsed) ==
    LET i == RecordLevel(e.input_level_buffer, e.last_input_levels, cur)
        o == RecordLevel(e.output_level_buffer, e.last_output_levels, out) IN
    [e EXCEPT !.input_level_buffer = i.buffer,
              !.last_input_levels = i.levels,
              !.cpu_meter = IF StageTimed(e) = 1 THEN StopTiming(@, elapsed, 1) ELSE @,
              !.output_level_buffer = o.buffer,
              !.last_output_levels = o.levels]

\* EffectChain::process_with_sidechain as a function of the chain, of what the
\* unit of each stage answers and of the time the clock measures for it
\* (elapsed[k], in ns): the stages it ran, the sample it returns and the list
\* it leaves
ProcessMetered(effs, byp, input, sidechain, answers, elapsed) ==
    LET r == ProcessChain(effs, byp, input, sidechain, answers) IN
    [ stages |-> r.stages, output |-> r.output,
      effects |-> IF byp \/ effs = << >> THEN effs
                  ELSE [k \in 1..Len(effs) |->
                          MeterStage(effs[k], r.stages[k].input, r.stages[k].output,
                                     elapsed[k])] ]

\* no stage has captured a sample yet
Unmetered(effs) == \A k \in 1..Len(effs) : effs[k].input_level_buffer = << >>

\* the samples a stage is run on in the specifications of the render path
MaxRenderCalls == 1

\* EffectChain::process_with_sidechain on the chain: the loop over the stages
\* with its captures and timings, and the sample returned; what the units
\* answer and what the clock reads are inputs, and no stage is run on more
\* than calls samples
ProcessCall(op, input, sidechain, answers, elapsed, calls) ==
    LET r == ProcessMetered(effects, bypassed, input, sidechain, answers, elapsed) IN
    /\ \/ bypassed
       \/ \A k \in 1..Len(effects) :
             /\ BufferLen(effects[k].input_level_buffer) < calls
             /\ effects[k].cpu_meter.metrics.samples_processed < calls
    /\ effects' = r.effects
    /\ trace' = Traced(input, sidechain, r)
    /\ last' = Call(op, 0, "", sidechain # None, 0, TRUE, None)
    /\ UNCHANGED << bypassed, registry, owned, sample_rate, polyVars, threadVars, meter >>

process_with_sidechain(input, sidechain) ==
    \E answers \in [1..Len(effects) -> Samples],
       elapsed \in [1..Len(effects) -> RenderTimes] :
        ProcessCall("process_with_sidechain", input, sidechain, answers, elapsed,
                    MaxRenderCalls)

\* EffectChain::process: process_with_sidechain(left, right, None)
process(input) ==
    \E answers \in [1..Len(effects) -> Samples],
       elapsed \in [1..Len(effects) -> RenderTimes] :
        ProcessCall("process", input, None, answers, elapsed, MaxRenderCalls)

RenderNext ==
    \/ \E n \in RenderNames : add_effect(n, EmptyMap)
    \/ \E i \in Indices : remove_effect(i)
    \/ \E i \in Indices, f \in BOOLEAN : bypass_effect(i, f)
    \/ \E i \in Indices, f \in BOOLEAN : mute_effect(i, f)
    \/ \E f \in BOOLEAN : set_bypass(f)
    \/ \E x \in Samples : process(x)
    \/ \E x \in Samples, sc \in {None, Some(<< 1, 2 >>)} : process_with_sidechain(x, sc)

SpecRender == RenderInit /\ [][RenderNext]_vars

\* process on a signal: every unit answers the same sample, and the clock is
\* read around the unit of each stage in turn (start_timing / stop_timing),
\* so that stage k is timed at elapsed[k] ns
process_metered(input, elapsed, calls) ==
    \E answers \in [1..Len(effects) -> UnitAnswers] :
        ProcessCall("process", input, None, answers, elapsed, calls)

\* the clock measuring the same time for every unit of the list
Steady(effs, ns) == [k \in 1..Len(effs) |-> ns]

\* EffectChain::reset_cpu_meters
ResetCpuMeters(effs) ==
    [k \in 1..Len(effs) |-> [effs[k] EXCEPT !.cpu_meter.metrics = NewMetrics]]

reset_cpu_meters ==
    /\ effects' = ResetCpuMeters(effects)
    /\ last' = Call("reset_cpu_meters", 0, "", FALSE, 0, TRUE, None)
    /\ trace' = NoTrace
    /\ UNCHANGED << bypassed, registry, owned, sample_rate, polyVars, threadVars, meter >>

\* a chain is built and then run on a signal: steady, or steady after an
\* impulse in its first sample
LevelsNext ==
    \/ Unmetered(effects) /\ add_effect("pan", EmptyMap)
    \/ effects # << >> /\ Unmetered(effects)
          /\ process_metered(ImpulseSample, Steady(effects, StageNs), MaxCalls)
    \/ effects # << >>
          /\ process_metered(SteadySample, Steady(effects, StageNs), MaxCalls)

SpecLevels == RenderInit /\ [][LevelsNext]_vars

\* a chain that is built, run and has its meters reset in any order, for a
\* few samples per stage; the clock gives a short or a long time for each
\* unit, one stage independently of the other
MeteringNext ==
    \/ add_effect("pan", EmptyMap)
    \/ \E i \in Indices, f \in BOOLEAN : bypass_effect(i, f)
    \/ \E elapsed \in [1..Len(effects) -> StageTimes] :
          effects # << >> /\ process_metered(SteadySample, elapsed, MaxSamples)
    \/ effects # << >> /\ reset_cpu_meters

SpecMetering == RenderInit /\ [][MeteringNext]_vars

\* ---------------------------------------------------------------- real-time parameter
MaxWrites == 2
MaxNexts == 2
\* the threshold 0.0001 asked of is_settled
Thresholds == {FRatio(F32, 1, 10000)}

\* a store that writes the low half of the word and leaves the rest
AtomicStore_LowHalfOnly(word, bits) == [word EXCEPT ![Len(word)] = bits[Len(bits)]]

\* AtomicU64::store / AtomicU32::store (Ordering::Relaxed): the word becomes
\* bits in one step
AtomicStore(word, bits) == bits

\* AtomicU64::load / AtomicU32::load (Ordering::Relaxed): the word as it is at
\* this step
AtomicLoad(word) == word

\* current += (target - current) * (1.0 - coefficient), in f32
Smooth(current, target, coefficient) ==
    FAdd(F32, current, FMul(F32, FSub(F32, target, current), FSub(F32, One32, coefficient)))

\* the writes the control thread has begun
RECURSIVE WritesOver(_, _)
WritesOver(written, cells) ==
    IF cells = {} THEN 0
    ELSE LET cell == CHOOSE c \in cells : TRUE IN
         Len(written[cell]) - 1 + WritesOver(written, cells \ {cell})
Writes(p) == WritesOver(p.written, DOMAIN p.written)

\* the control thread enters SmoothedParam::set_target(value)
set_target_begin(v) ==
    /\ param.writer.pc = "idle"
    /\ Writes(param) < MaxWrites
    /\ param' = [param EXCEPT !.writer = [ pc |-> "store", cell |-> "target", value |-> v ],
                              !.written.target = Append(@, v)]
    /\ last' = Call("set_target_begin", 0, "", FALSE, v, TRUE, None)
    /\ UNCHANGED << chainVars, polyVars, trace, render, meter >>

\* SmoothedParam::set_target: target.store(value.to_bits() as u64, Relaxed),
\* after which the call returns
set_target ==
    /\ param.writer.pc = "store"
    /\ param.writer.cell = "target"
    /\ param' = [param EXCEPT
                    !.target = AtomicStore(@, AsU64(to_bits(param.writer.value))),
                    !.stored.target = Len(param.written.target),
                    !.completed.target = Len(param.written.target),
                    !.writer.pc = "idle"]
    /\ last' = Call("set_target", 0, "", FALSE, param.writer.value, TRUE, None)
    /\ UNCHANGED << chainVars, polyVars, trace, render, meter >>

\* the control thread enters EffectControls::set(name, value): params.get(name)
\* finds the Shared to store to, or nothing, and then the call returns at once
set_begin(name, v) ==
    /\ param.writer.pc = "idle"
    /\ IF name \in DOMAIN param.controls
       THEN /\ Writes(param) < MaxWrites
            /\ param' = [param EXCEPT
                            !.writer = [ pc |-> "store", cell |-> name, value |-> v ],
                            !.written[name] = Append(@, v)]
       ELSE param' = param
    /\ last' = Call("set_begin", 0, name, FALSE, v, name \in DOMAIN param.controls, None)
    /\ UNCHANGED << chainVars, polyVars, trace, render, meter >>

\* EffectControls::set after the lookup: shared.set(value), one atomic store of
\* the bits of the value, after which the call returns
set ==
    /\ param.writer.pc = "store"
    /\ param.writer.cell # "target"
    /\ LET name == param.writer.cell IN
       param' = [param EXCEPT
                    !.controls[name] = AtomicStore(@, to_bits(param.writer.value)),
                    !.stored[name] = Len(param.written[name]),
                    !.completed[name] = Len(param.written[name]),
                    !.writer.pc = "idle"]
    /\ last' = Call("set", 0, param.writer.cell, FALSE, param.writer.value, TRUE, None)
    /\ UNCHANGED << chainVars, polyVars, trace, render, meter >>

\* the render thread enters a call that loads an atomic word: next(),
\* snap_to_target() and is_settled(arg) load the target, EffectControls::get(name)
\* (op "value") loads the Shared of name, if there is one
read_begin(op, name, arg) ==
    LET cell == IF op = "value" THEN name ELSE "target" IN
    /\ param.reader.pc = "idle"
    /\ op = "next" => param.nexts < MaxNexts
    /\ param' = [param EXCEPT
                    !.reader.pc = IF cell \in DOMAIN param.written THEN "load" ELSE "return",
                    !.reader.op = op,
                    !.reader.cell = cell,
                    !.reader.arg = arg,
                    !.reader.floor = IF cell \in DOMAIN param.written
                                     THEN param.completed[cell] ELSE 1,
                    !.reader.before = param.current,
                    !.nexts = IF op = "next" THEN @ + 1 ELSE @]
    /\ last' = Call("read_begin", 0, op, FALSE, 0, TRUE, None)
    /\ UNCHANGED << chainVars, polyVars, trace, render, meter >>

\* target.load(Relaxed) of next(), snap_to_target() and is_settled(), and the
\* load of Shared::value()
read_load ==
    /\ param.reader.pc = "load"
    /\ LET cell == param.reader.cell IN
       param' = [param EXCEPT
                    !.reader.pc = "return",
                    !.reader.bits = IF cell = "target" THEN AtomicLoad(param.target)
                                    ELSE AtomicLoad(param.controls[cell]),
                    !.reader.saw = param.stored[cell]]
    /\ last' = Call("read_load", 0, param.reader.op, FALSE, 0, TRUE, None)
    /\ UNCHANGED << chainVars, polyVars, trace, render, meter >>

\* SmoothedParam::next after the load: f32::from_bits(target_bits as u32), the
\* smoothing step, and the return of current
next ==
    /\ param.reader.pc = "return"
    /\ param.reader.op = "next"
    /\ LET target == from_bits(AsU32(param.reader.bits))
           current == Smooth(param.current, target, param.coefficient) IN
       /\ param' = [param EXCEPT !.current = current, !.reader.pc = "idle"]
       /\ last' = Call("next", 0, "", FALSE, 0, TRUE, Some(current))
    /\ UNCHANGED << chainVars, polyVars, trace, render, meter >>

\* SmoothedParam::snap_to_target after the load: current becomes the target
snap_to_target ==
    /\ param.reader.pc = "return"
    /\ param.reader.op = "snap_to_target"
    /\ param' = [param EXCEPT !.current = from_bits(AsU32(param.reader.bits)),
                              !.reader.pc = "idle"]
    /\ last' = Call("snap_to_target", 0, "", FALSE, 0, TRUE, None)
    /\ UNCHANGED << chainVars, polyVars, trace, render, meter >>

\* SmoothedParam::is_settled(threshold) after the load:
\* (current - target).abs() < threshold
is_settled ==
    /\ param.reader.pc = "return"
    /\ param.reader.op = "is_settled"
    /\ param' = [param EXCEPT !.reader.pc = "idle"]
    /\ last' = Call("is_settled", 0, "", FALSE, param.reader.arg,
                    FLt(F32, FAbs(FSub(F32, param.current,
                                       from_bits(AsU32(param.reader.bits)))),
                        param.reader.arg),
                    None)
    /\ UNCHANGED << chainVars, polyVars, trace, render, meter >>

\* EffectControls::get(name): params.get(name).map(|s| s.value()), the value
\* of the bits loaded from the Shared of name, None for a name without one
value ==
    /\ param.reader.pc = "return"
    /\ param.reader.op = "value"
    /\ param' = [param EXCEPT !.reader.pc = "idle"]
    /\ last' = Call("value", 0, param.reader.cell, FALSE, 0,
                    param.reader.cell \in DOMAIN param.controls,
                    IF param.reader.cell \in DOMAIN param.controls
                    THEN Some(from_bits(param.reader.bits))
                    ELSE None)
    /\ UNCHANGED << chainVars, polyVars, trace, render, meter >>

\* SmoothedParam::set_sample_rate(sample_rate, smoothing_ms), between two
\* calls of the thread that owns the parameter: the time constant and the
\* coefficient are computed anew
SmoothedParam_set_sample_rate(rate, smoothing_ms) ==
    /\ param.reader.pc = "idle"
    /\ param' = [param EXCEPT
                    !.time_constant = TimeConstant(smoothing_ms, rate),
                    !.coefficient = Coefficient(TimeConstant(smoothing_ms, rate))]
    /\ last' = Call("SmoothedParam_set_sample_rate", 0, "", FALSE, rate, TRUE, None)
    /\ UNCHANGED << chainVars, polyVars, trace, render, meter >>

ParamInit ==
    /\ \E initial \in InitialValues32, ms \in SmoothingMs, rate \in ParamRates :
          param = NewParam(initial, ms, rate)
    /\ render = NotRendering
    /\ effects = << >>
    /\ bypassed = FALSE
    /\ registry = FALSE
    /\ owned = TRUE
    /\ sample_rate = DefaultSampleRate
    /\ trace = NoTrace
    /\ last = NoCall
    /\ PolyIdle
    /\ MeterIdle

ParamNext ==
    \/ \E v \in ParamValues32 : set_target_begin(v)
    \/ set_target
    \/ \E n \in ParamNames, v \in ControlValues32 : set_begin(n, v)
    \/ set
    \/ \E op \in {"next", "snap_to_target"} : read_begin(op, "", Zero32)
    \/ \E t \in Thresholds : read_begin("is_settled", "", t)
    \/ \E n \in ParamNames : read_begin("value", n, Zero32)
    \/ read_load
    \/ next
    \/ snap_to_target
    \/ is_settled
    \/ value
    \/ \E rate \in ParamRates, ms \in SmoothingMs : SmoothedParam_set_sample_rate(rate, ms)

SpecParam == ParamInit /\ [][ParamNext]_vars

\* ---------------------------------------------------------------- render thread
\* a &mut self method may be entered without the borrow checker's leave
BorrowMut_Unchecked(r) == TRUE

\* a method that takes &mut self can be entered only while no other borrow of
\* the chain is live: no process call is in progress
BorrowMut(r) == ~r.running

\* process_with_sidechain up to the loop: the early return, or the entry into
\* the loop over the list
begin_process(input) ==
    /\ BorrowMut(render)
    /\ \/ bypassed
       \/ \A k \in 1..Len(effects) :
             /\ BufferLen(effects[k].input_level_buffer) < MaxRenderCalls
             /\ effects[k].cpu_meter.metrics.samples_processed < MaxRenderCalls
    /\ IF bypassed \/ effects = << >>
       THEN /\ render' = NotRendering
            /\ trace' = Traced(input, None, [ stages |-> << >>, output |-> input ])
            /\ last' = Call("process", 0, "", FALSE, 0, TRUE, None)
       ELSE /\ render' = [ running |-> TRUE, pos |-> 0, borrowed |-> effects,
                           visited |-> << >> ]
            /\ trace' = Traced(input, None, [ stages |-> << >>, output |-> input ])
            /\ last' = Call("begin_process", 0, "", FALSE, 0, TRUE, None)
    /\ UNCHANGED << chainVars, polyVars, param, meter >>

\* an iterator over the list that yields the stages last to first
StagePos_Reversed(effs, pos) == Len(effs) - pos

\* the position (1-based) of the stage that `for effect in &mut self.effects`
\* yields after pos stages
StagePos(effs, pos) == pos + 1

\* one iteration of the loop: the stage at the position is run on the sample
\* the stage before it handed on, and its windows and its meter are written
step_process ==
    /\ render.running
    /\ render.pos < Len(effects)
    /\ \E answer \in Samples, elapsed \in RenderTimes :
          LET at == StagePos(effects, render.pos)
              e == effects[at]
              out == StageOutput(e, trace.output, answer) IN
          /\ trace' = [trace EXCEPT
                          !.stages = Append(@, [ input |-> trace.output, output |-> out,
                                                 unit |-> StageUnit(e, None),
                                                 timed |-> StageTimed(e),
                                                 recomputed |->
                                                    RecordLevel(e.input_level_buffer,
                                                                e.last_input_levels,
                                                                trace.output).recomputed ]),
                          !.output = out]
          /\ render' = [render EXCEPT !.pos = @ + 1, !.visited = Append(@, e)]
          /\ effects' = [effects EXCEPT ![at] =
                            MeterStage(e, trace.output, out, elapsed)]
    /\ last' = Call("step_process", render.pos, "", FALSE, 0, TRUE, None)
    /\ UNCHANGED << bypassed, registry, owned, sample_rate, polyVars, param, meter >>

\* the end of the loop: the call returns the sample of the last stage
end_process ==
    /\ render.running
    /\ render.pos >= Len(effects)
    /\ render' = [render EXCEPT !.running = FALSE]
    /\ last' = Call("process", 0, "", FALSE, 0, TRUE, None)
    /\ UNCHANGED << chainVars, polyVars, param, trace, meter >>

\* the control path mutating the list while the render path calls process
TraversalNext ==
    \/ BorrowMut(render) /\ \E n \in RenderNames : add_effect(n, EmptyMap)
    \/ BorrowMut(render) /\ \E id \in EffectIds : add_effect_with_id(id, "vibrato", EmptyMap)
    \/ BorrowMut(render) /\ \E i \in Indices : remove_effect(i)
    \/ BorrowMut(render) /\ \E id \in EffectIds : remove_effect_by_id(id)
    \/ BorrowMut(render) /\ \E id \in EffectIds, i \in Indices : reorder_effect_by_id(id, i)
    \/ BorrowMut(render) /\ clear
    \/ BorrowMut(render) /\ \E st \in StoredStates : from_state(st)
    \/ begin_process(<< 1, 2 >>)
    \/ step_process
    \/ end_process

SpecTraversal == RenderInit /\ [][TraversalNext]_vars


\* the operations that take an index, on chains built by add_effect and run
\* on a sample
IndexNext ==
    \/ \E n \in EffectNames : add_effect(n, EmptyMap)
    \/ \E i \in Indices : remove_effect(i)
    \/ \E i \in Indices, n \in ParamNames, v \in ParamValues : set_param(i, n, v)
    \/ \E i \in Indices, f \in BOOLEAN : bypass_effect(i, f)
    \/ \E i \in Indices, f \in BOOLEAN : mute_effect(i, f)
    \/ \E i \in Indices : is_effect_bypassed(i)
    \/ \E i \in Indices : is_effect_muted(i)
    \/ \E i \in Indices : effect_latency(i)
    \/ \E i \in Indices : effect_name(i)
    \/ \E i \in Indices : effect_cpu_usage(i)
    \/ process_metered(SteadySample, Steady(effects, StageNs), MaxRenderCalls)

SpecIndex == RenderInit /\ [][IndexNext]_vars

\* adding, removing, reordering, bypassing and muting stages with and without
\* latency, and asking for the total
LatencyNames == {"pan", "vibrato"}
LatencyNext ==
    \/ \E n \in LatencyNames : add_effect(n, EmptyMap)
    \/ \E id \in EffectIds, n \in LatencyNames : add_effect_with_id(id, n, EmptyMap)
    \/ \E i \in Indices : remove_effect(i)
    \/ \E id \in EffectIds : remove_effect_by_id(id)
    \/ \E id \in EffectIds, i \in Indices : reorder_effect_by_id(id, i)
    \/ \E i \in Indices, f \in BOOLEAN : bypass_effect(i, f)
    \/ \E i \in Indices, f \in BOOLEAN : mute_effect(i, f)
    \/ total_latency

SpecLatency == RenderInit /\ [][LatencyNext]_vars

SpecChain == ChainInit /\ [][ChainNext]_vars

\* ---------------------------------------------------------------- reordering
\* chains long enough for a move to pass over two other effects
MaxReorder == 3

\* what add_effect (no id) and add_effect_with_id (id 1) are called with
ReorderEntries == {<< id, n >> : id \in {None, Some(1)}, n \in LatencyNames}
\* the ids asked for: 1 may be in the chain, 2 never is
ReorderIds == {1, 2}

\* the chain after the calls add_effect / add_effect_with_id of entries, in order
RECURSIVE BuildChain(_, _)
BuildChain(effs, entries) ==
    IF entries = << >> THEN effs
    ELSE BuildChain(AddEffect(effs, TRUE, Head(entries)[1], Head(entries)[2],
                              EmptyMap, DefaultSampleRate)[2],
                    Tail(entries))

\* a chain with a registry on which up to MaxReorder effects have been added
ReorderInit ==
    /\ \E n \in 0..MaxReorder : \E entries \in [1..n -> ReorderEntries] :
           effects = BuildChain(<< >>, entries)
    /\ bypassed = FALSE
    /\ registry = TRUE
    /\ owned = TRUE
    /\ sample_rate = DefaultSampleRate
    /\ trace = NoTrace
    /\ last = NoCall
    /\ PolyIdle
    /\ ThreadsIdle
    /\ MeterIdle

ReorderNext ==
    \/ \E id \in ReorderIds, k \in 0..MaxReorder : reorder_effect_by_id(id, k)
    \/ \E i \in 0..MaxReorder : bypass_effect(i, TRUE)
    \/ \E i \in 0..MaxReorder : set_param(i, "pan", 1)

SpecReorder == ReorderInit /\ [][ReorderNext]_vars
\* ================================================================ PolySynth
MaxVoices == 2
MaxAge == 4

\* SynthRegistry::register_builtin: the builders the model keeps
SynthBuilders == {"sine", "tb303"}
SynthNames == {"sine", "tb303", "nosuch"}
Notes == {60, 64, 67, 72}
Velocities == {8, 9}
Semitones == {12}
Cutoffs == {500}
Resonances == {7}
\* the parameter set for new voices: a cutoff
VoiceParams == {<< "cutoff", 250 >>}
UnityBend == 10
DefaultAmp == 10
DefaultCutoff == 1000
DefaultRes == 5

\* CreateOk of a registry that builds a unit for every name
CreateOk_Always(name) == TRUE

\* SynthRegistry::create: Ok for a registered name, Err(InvalidSynth) otherwise
CreateOk(name) == name \in SynthBuilders

\* SynthBuilder::build, the VoiceControls of a fresh unit: amp from the
\* parameter "amp" or 1.0, pitch bend 1.0, pressure 0.0; TB303SynthBuilder
\* adds cutoff (parameter "cutoff" or 1000.0) and resonance ("res" or 0.5)
BuildVoiceControls(name, vparams) ==
    [ amp |-> Get(vparams, "amp", DefaultAmp), pitch_bend |-> UnityBend, pressure |-> 0,
      cutoff |-> IF name = "tb303"
                 THEN Some(Get(vparams, "cutoff", DefaultCutoff)) ELSE None,
      resonance |-> IF name = "tb303"
                    THEN Some(Get(vparams, "res", DefaultRes)) ELSE None ]

\* the Voice note_on builds: a new unit (numbered by the order of creation),
\* its controls with amp set to the velocity, the note and the age
NewVoice(name, vparams, serial, note, velocity, age) ==
    [ unit |-> serial,
      controls |-> [BuildVoiceControls(name, vparams) EXCEPT !.amp = velocity],
      note |-> Some(note),
      age |-> age ]

\* Holding that never finds the note
Holding_Never(vs, note) == {}

\* positions (1-based) of the voices that hold the note / that are free
Holding(vs, note) == {i \in 1..Len(vs) : vs[i].note = Some(note)}
\* the scan for a free voice finds none
FreeSlots_Ignored(vs) == {}
FreeSlots(vs) == {i \in 1..Len(vs) : vs[i].note = None}
Min(S) == CHOOSE x \in S : \A y \in S : x <= y

\* OldestIdx that keeps the last of several voices of minimum age
OldestIdx_Youngest(vs) ==
    CHOOSE i \in 1..Len(vs) : \A j \in 1..Len(vs) : vs[j].age <= vs[i].age

\* OldestIdx that takes the voice triggered last
OldestIdx_Newest(vs) ==
    Min({i \in 1..Len(vs) : \A j \in 1..Len(vs) : vs[j].age <= vs[i].age})

\* voices.iter().enumerate().min_by_key(|(_, v)| v.age): the first voice of
\* minimum age (1-based position)
OldestIdx(vs) ==
    Min({i \in 1..Len(vs) : \A j \in 1..Len(vs) : vs[i].age <= vs[j].age})

\* NoteOn whose first loop is missing: a held note is allocated again
NoteOn_NoRetrigger(name, vparams, maxv, vs, age, made, note, velocity) ==
    LET fresh == NewVoice(name, vparams, made + 1, note, velocity, age) IN
    IF FreeSlots(vs) # {}
    THEN IF CreateOk(name)
         THEN [ voices |-> [vs EXCEPT ![Min(FreeSlots(vs))] = fresh],
                age_counter |-> age + 1, created |-> made + 1,
                ret |-> Some(Min(FreeSlots(vs)) - 1) ]
         ELSE [ voices |-> vs, age_counter |-> age, created |-> made, ret |-> None ]
    ELSE IF Len(vs) < maxv
    THEN IF CreateOk(name)
         THEN [ voices |-> Append(vs, fresh),
                age_counter |-> age + 1, created |-> made + 1,
                ret |-> Some(Len(vs)) ]
         ELSE [ voices |-> vs, age_counter |-> age, created |-> made, ret |-> None ]
    ELSE IF vs = << >>
    THEN [ voices |-> vs, age_counter |-> age, created |-> made, ret |-> None ]
    ELSE IF CreateOk(name)
    THEN [ voices |-> [vs EXCEPT ![OldestIdx(vs)] = fresh],
           age_counter |-> age + 1, created |-> made + 1,
           ret |-> Some(OldestIdx(vs) - 1) ]
    ELSE [ voices |-> vs, age_counter |-> age, created |-> made, ret |-> None ]

\* NoteOn whose retrigger stamps the voice and leaves the counter where it was
NoteOn_StaleRetrigger(name, vparams, maxv, vs, age, made, note, velocity) ==
    IF Holding(vs, note) # {}
    THEN LET i == Min(Holding(vs, note)) IN
         [ voices |-> [vs EXCEPT ![i].controls.amp = velocity,
                                 ![i].controls.pitch_bend = UnityBend,
                                 ![i].age = age],
           age_counter |-> age, created |-> made, ret |-> Some(i - 1) ]
    ELSE NoteOn_NoRetrigger(name, vparams, maxv, vs, age, made, note, velocity)

\* NoteOn whose test for room in the pool is `len <= max_voices`: a full pool
\* with no Free voice grows instead of stealing
NoteOn_GrowsWhenFull(name, vparams, maxv, vs, age, made, note, velocity) ==
    IF Holding(vs, note) # {}
    THEN LET i == Min(Holding(vs, note)) IN
         [ voices |-> [vs EXCEPT ![i].controls.amp = velocity,
                                 ![i].controls.pitch_bend = UnityBend,
                                 ![i].age = age],
           age_counter |-> age + 1, created |-> made, ret |-> Some(i - 1) ]
    ELSE IF FreeSlots(vs) = {} /\ Len(vs) = maxv /\ CreateOk(name)
    THEN [ voices |-> Append(vs, NewVoice(name, vparams, made + 1, note, velocity, age)),
           age_counter |-> age + 1, created |-> made + 1, ret |-> Some(Len(vs)) ]
    ELSE NoteOn_NoRetrigger(name, vparams, maxv, vs, age, made, note, velocity)

\* PolySynth::note_on as a function of the manager: the voices, the counters
\* and the returned index
NoteOn(name, vparams, maxv, vs, age, made, note, velocity) ==
    LET fresh == NewVoice(name, vparams, made + 1, note, velocity, age) IN
    IF Holding(vs, note) # {}
    THEN \* retrigger the first voice that holds the note
         LET i == Min(Holding(vs, note)) IN
         [ voices |-> [vs EXCEPT ![i].controls.amp = velocity,
                                 ![i].controls.pitch_bend = UnityBend,
                                 ![i].age = age],
           age_counter |-> age + 1, created |-> made, ret |-> Some(i - 1) ]
    ELSE IF FreeSlots(vs) # {}
    THEN \* the first free voice gets a new unit; a failed create returns None
         IF CreateOk(name)
         THEN [ voices |-> [vs EXCEPT ![Min(FreeSlots(vs))] = fresh],
                age_counter |-> age + 1, created |-> made + 1,
                ret |-> Some(Min(FreeSlots(vs)) - 1) ]
         ELSE [ voices |-> vs, age_counter |-> age, created |-> made, ret |-> None ]
    ELSE IF Len(vs) < maxv
    THEN \* allocate a new voice
         IF CreateOk(name)
         THEN [ voices |-> Append(vs, fresh),
                age_counter |-> age + 1, created |-> made + 1,
                ret |-> Some(Len(vs)) ]
         ELSE [ voices |-> vs, age_counter |-> age, created |-> made, ret |-> None ]
    ELSE IF vs = << >>
    THEN \* min_by_key of an empty pool is None: the ? returns None
         [ voices |-> vs, age_counter |-> age, created |-> made, ret |-> None ]
    ELSE \* steal the oldest voice
         IF CreateOk(name)
         THEN [ voices |-> [vs EXCEPT ![OldestIdx(vs)] = fresh],
                age_counter |-> age + 1, created |-> made + 1,
                ret |-> Some(OldestIdx(vs) - 1) ]
         ELSE [ voices |-> vs, age_counter |-> age, created |-> made, ret |-> None ]

\* the log of a run of note_on calls, kept while it is at most one call longer
\* than the pool can grow
Logged(note, velocity, ret) ==
    IF log.fresh /\ Len(log.calls) <= max_voices
    THEN [ fresh |-> TRUE,
           calls |-> Append(log.calls, [ note |-> note, velocity |-> velocity, ret |-> ret ]) ]
    ELSE NoLog

note_on(note, velocity) ==
    LET r == NoteOn(synth_name, voice_params, max_voices, voices, age_counter, created, note, velocity) IN
    /\ (age_counter < MaxAge \/ r.ret = None)
    /\ voices' = r.voices
    /\ age_counter' = r.age_counter
    /\ created' = r.created
    /\ log' = Logged(note, velocity, r.ret)
    /\ last' = Call("note_on", note, "", FALSE, velocity, r.ret # None, r.ret)
    /\ UNCHANGED << synth_name, voice_params, max_voices, chainVars, trace, threadVars, meter >>

\* PolySynth::set_param: params.insert(name, value), read by later note_on
\* calls that build a unit; the voices in the pool keep their controls
PolySynth_set_param(name, v) ==
    /\ voice_params' = [k \in DOMAIN voice_params \cup {name} |->
                            IF k = name THEN v ELSE voice_params[k]]
    /\ log' = NoLog
    /\ last' = Call("PolySynth::set_param", 0, name, FALSE, v, TRUE, None)
    /\ UNCHANGED << synth_name, max_voices, voices, age_counter, created,
                    chainVars, trace, threadVars, meter >>

\* NoteOff that frees the holders and keeps their amplitude
NoteOff_KeepsAmp(vs, note) ==
    [i \in 1..Len(vs) |->
        IF vs[i].note = Some(note) THEN [vs[i] EXCEPT !.note = None] ELSE vs[i]]

\* PolySynth::note_off on the pool
NoteOff(vs, note) ==
    [i \in 1..Len(vs) |->
        IF vs[i].note = Some(note)
        THEN [vs[i] EXCEPT !.controls.amp = 0, !.note = None]
        ELSE vs[i]]

note_off(note) ==
    /\ voices' = NoteOff(voices, note)
    /\ log' = NoLog
    /\ last' = Call("note_off", note, "", FALSE, 0, TRUE, None)
    /\ UNCHANGED << synth_name, voice_params, max_voices, age_counter, created, chainVars, trace, threadVars, meter >>

\* PolySynth::all_notes_off on the pool
AllNotesOff(vs) ==
    [i \in 1..Len(vs) |-> [vs[i] EXCEPT !.controls.amp = 0, !.note = None]]

all_notes_off ==
    /\ voices' = AllNotesOff(voices)
    /\ log' = NoLog
    /\ last' = Call("all_notes_off", 0, "", FALSE, 0, TRUE, None)
    /\ UNCHANGED << synth_name, voice_params, max_voices, age_counter, created, chainVars, trace, threadVars, meter >>

\* 2.0_f32.powf(semitones / 12.0), scaled by ten, for whole octaves
BendOf(semitones) ==
    CASE semitones = 0 -> 10
      [] semitones = 12 -> 20
      [] semitones = -12 -> 5

\* PolySynth::pitch_bend on the pool
PitchBend(vs, semitones) ==
    [i \in 1..Len(vs) |->
        IF vs[i].note # None
        THEN [vs[i] EXCEPT !.controls.pitch_bend = BendOf(semitones)]
        ELSE vs[i]]

pitch_bend(semitones) ==
    /\ voices' = PitchBend(voices, semitones)
    /\ log' = NoLog
    /\ last' = Call("pitch_bend", 0, "", FALSE, semitones, TRUE, None)
    /\ UNCHANGED << synth_name, voice_params, max_voices, age_counter, created, chainVars, trace, threadVars, meter >>

\* PolySynth::set_cutoff on the pool: every voice that has a cutoff control,
\* sounding or free
SetCutoff(vs, cutoff) ==
    [i \in 1..Len(vs) |->
        IF vs[i].controls.cutoff # None
        THEN [vs[i] EXCEPT !.controls.cutoff = Some(cutoff)]
        ELSE vs[i]]

set_cutoff(cutoff) ==
    /\ voices' = SetCutoff(voices, cutoff)
    /\ log' = NoLog
    /\ last' = Call("set_cutoff", 0, "", FALSE, cutoff, TRUE, None)
    /\ UNCHANGED << synth_name, voice_params, max_voices, age_counter, created, chainVars, trace, threadVars, meter >>

\* PolySynth::set_resonance on the pool: every voice that has a resonance
\* control, sounding or free
SetResonance(vs, resonance) ==
    [i \in 1..Len(vs) |->
        IF vs[i].controls.resonance # None
        THEN [vs[i] EXCEPT !.controls.resonance = Some(resonance)]
        ELSE vs[i]]

set_resonance(resonance) ==
    /\ voices' = SetResonance(voices, resonance)
    /\ log' = NoLog
    /\ last' = Call("set_resonance", 0, "", FALSE, resonance, TRUE, None)
    /\ UNCHANGED << synth_name, voice_params, max_voices, age_counter, created, chainVars, trace, threadVars, meter >>

\* PolySynth::active_voices, allocated_voices
active_voices(vs) == Cardinality({i \in 1..Len(vs) : vs[i].note # None})
allocated_voices(vs) == Len(vs)

\* playing_notes that lists the held notes in ascending order
playing_notes_Ascending(vs) ==
    LET held == {vs[i].note[1] : i \in {j \in 1..Len(vs) : vs[j].note # None}} IN
    CHOOSE s \in [1..Cardinality(held) -> held] :
        /\ \A n \in held : \E k \in 1..Cardinality(held) : s[k] = n
        /\ \A k \in 1..(Cardinality(held) - 1) : s[k] < s[k + 1]

\* PolySynth::playing_notes: the notes of the sounding voices in pool order
RECURSIVE playing_notes(_)
playing_notes(vs) ==
    IF vs = << >> THEN << >>
    ELSE vs[1].note \o playing_notes(Tail(vs))

\* PolySynth::with_registry
PolyInit ==
    /\ synth_name \in SynthNames
    /\ voice_params = EmptyMap
    /\ max_voices \in 0..MaxVoices
    /\ voices = << >>
    /\ age_counter = 0
    /\ created = 0
    /\ log = [ fresh |-> TRUE, calls |-> << >> ]
    /\ last = NoCall
    /\ trace = NoTrace
    /\ effects = << >>
    /\ bypassed = FALSE
    /\ registry = FALSE
    /\ owned = TRUE
    /\ sample_rate = DefaultSampleRate
    /\ ThreadsIdle
    /\ MeterIdle

PolyNext ==
    \/ \E n \in Notes, v \in Velocities : note_on(n, v)
    \/ \E n \in Notes : note_off(n)
    \/ all_notes_off
    \/ \E st \in Semitones : pitch_bend(st)

SpecPoly == PolyInit /\ [][PolyNext]_vars

\* the note operations together with the filter setters
PolyControlNext ==
    \/ PolyNext
    \/ \E c \in Cutoffs : set_cutoff(c)
    \/ \E q \in Resonances : set_resonance(q)
    \/ \E pv \in VoiceParams : PolySynth_set_param(pv[1], pv[2])

SpecPolyControl == PolyInit /\ [][PolyControlNext]_vars

\* ================================================================ claims
\* a stage without what its meters hold: the fields processing reads
Processing(effs) ==
    [k \in 1..Len(effs) |->
        [ id |-> effs[k].id, name |-> effs[k].name, controls |-> effs[k].controls,
          processor |-> effs[k].processor,
          sidechain_processor |-> effs[k].sidechain_processor,
          latency_samples |-> effs[k].latency_samples,
          bypassed |-> effs[k].bypassed, muted |-> effs[k].muted ]]

ProcessOps == {"process", "process_with_sidechain"}
AddOps == {"add_effect", "add_effect_with_id", "add", "effect"}

\* C1: process and process_with_sidechain return their input sample exactly
\* whenever the chain is empty or its chain-level bypassed flag is set,
\* whatever the per-stage bypass/mute flags and the sidechain argument are.
C1_EmptyOrBypassedChainPassesInput ==
    (last.op \in ProcessOps /\ (bypassed \/ effects = << >>))
        => trace.output = trace.input

\* a bypassed chain holding a muted stage is handed a non-silent sample and a
\* sidechain sample
C1_Witness ==
    /\ last.op = "process_with_sidechain"
    /\ trace.sidechain # None
    /\ bypassed
    /\ \E k \in 1..Len(effects) : effects[k].muted
    /\ trace.input # Silence
    /\ trace.output = trace.input

\* C2 as stated: on a chain that is not globally bypassed, a process call
\* that directly follows a successful bypass_effect(i, true) hands on from
\* stage i the sample that entered stage i.
C2_BypassedStagePassesInput_AsClaimed ==
    [][ ( /\ last.op = "bypass_effect" /\ last.ok /\ last.flag
          /\ last'.op \in ProcessOps
          /\ ~bypassed )
        => trace'.stages[last.index + 1].output = trace'.stages[last.index + 1].input
      ]_vars

\* C2 amended: the same, for a stage i that is not muted.
C2_UnmutedBypassedStagePassesInput ==
    [][ ( /\ last.op = "bypass_effect" /\ last.ok /\ last.flag
          /\ last'.op \in ProcessOps
          /\ ~bypassed
          /\ ~effects[last.index + 1].muted )
        => trace'.stages[last.index + 1].output = trace'.stages[last.index + 1].input
      ]_vars

\* a process call on a live chain with a bypassed, unmuted stage that a
\* non-silent sample entered
C2_Witness ==
    /\ last.op \in ProcessOps
    /\ ~bypassed
    /\ \E k \in 1..Len(effects) :
        /\ effects[k].bypassed /\ ~effects[k].muted
        /\ trace.stages[k].input # Silence
        /\ trace.stages[k].unit = "none"
        /\ trace.stages[k].output = trace.stages[k].input

\* C3: on a chain that is not globally bypassed, a process call that directly
\* follows a successful mute_effect(i, true) hands on (0.0, 0.0) from stage i,
\* whatever the stage's input, parameters and bypass flag are.
C3_MutedStageOutputsSilence ==
    [][ ( /\ last.op = "mute_effect" /\ last.ok /\ last.flag
          /\ last'.op \in ProcessOps
          /\ ~bypassed )
        => trace'.stages[last.index + 1].output = Silence
      ]_vars

\* a process call on a live chain with a stage both muted and bypassed that a
\* non-silent sample entered
C3_Witness ==
    /\ last.op \in ProcessOps
    /\ ~bypassed
    /\ \E k \in 1..Len(effects) :
        /\ effects[k].muted /\ effects[k].bypassed
        /\ trace.stages[k].input # Silence
        /\ trace.stages[k].output = Silence

\* C4 as claimed: add_effect and its wrappers add, effect and
\* add_effect_with_id, called with a name the registry does not know or on a
\* chain without a registry, return an error and leave the caller with the
\* chain exactly as it was: effect list (order, flags, parameters, length)
\* and chain bypass flag.
C4_FailedAddLeavesChainUnchanged_AsClaimed ==
    [][ (last'.op \in AddOps /\ (last'.name \notin Builders \/ ~registry))
        => ( /\ ~last'.ok
             /\ last'.ret = None
             /\ owned'
             /\ effects' = effects
             /\ bypassed' = bypassed
             /\ sample_rate' = sample_rate )
      ]_vars

\* C4 amended: add_effect, add and add_effect_with_id called with a name the
\* registry does not know, or on a chain without a registry, return an error
\* and leave the chain as it was; effect returns the error, having added
\* nothing, and the chain it consumed is dropped.
C4_FailedAddLeavesChainUnchanged ==
    [][ (last'.op \in AddOps /\ (last'.name \notin Builders \/ ~registry))
        => ( /\ ~last'.ok
             /\ last'.ret = None
             /\ (owned' <=> last'.op # "effect")
             /\ effects' = effects
             /\ bypassed' = bypassed
             /\ sample_rate' = sample_rate )
      ]_vars

\* effect failed on a chain with a registry that held a bypassed effect: the
\* caller is left without a chain
C4_Witness ==
    /\ last.op = "effect" /\ ~last.ok
    /\ last.name = "nosuch"
    /\ ~owned
    /\ registry
    /\ Len(effects) > 0
    /\ effects[1].bypassed

\* C5: a successful add_effect (or add_effect_with_id, add, effect) appends
\* exactly one effect at the end; add_effect and add_effect_with_id return
\* its index, the chain length before the call; the new effect is neither
\* bypassed nor muted; every effect already there keeps its position, flags
\* and parameters.
C5_SuccessfulAddAppendsOne ==
    [][ (last'.op \in AddOps /\ last'.ok)
        => ( /\ Len(effects') = Len(effects) + 1
             /\ (last'.op \in {"add_effect", "add_effect_with_id"}
                    => last'.ret = Some(Len(effects)))
             /\ \A k \in 1..Len(effects) : effects'[k] = effects[k]
             /\ effects'[Len(effects')].name = last'.name
             /\ ~effects'[Len(effects')].bypassed
             /\ ~effects'[Len(effects')].muted
             /\ owned' )
      ]_vars

\* a successful add_effect behind an effect that is muted and whose control
\* was set
C5_Witness ==
    /\ last.op = "add_effect" /\ last.ok
    /\ last.ret = Some(1)
    /\ Len(effects) = 2
    /\ effects[1].muted
    /\ effects[1].controls = [k \in {"pan"} |-> 1]

\* C6: from_state(to_state()) on the same chain succeeds and yields the same
\* number of stages, the same names in the same order, the same per-stage
\* bypass and mute flags, the same chain bypass flag and the same parameter
\* values for every stage.
C6_StateRoundTrip ==
    [][ (last'.op = "from_state" /\ last'.flag)
        => ( /\ last'.ok
             /\ Len(effects') = Len(effects)
             /\ bypassed' = bypassed
             /\ \A k \in 1..Len(effects) :
                    /\ effects'[k].name = effects[k].name
                    /\ effects'[k].bypassed = effects[k].bypassed
                    /\ effects'[k].muted = effects[k].muted
                    /\ Parameters(effects'[k]) = Parameters(effects[k]) )
      ]_vars

\* a round trip of a chain whose vibrato was built with a rate of its own:
\* the state held no parameter for it and the stage that comes back runs at
\* the builder's default rate; the pan beside it kept the value its control
\* was set to
C6_Witness ==
    /\ last.op = "from_state" /\ last.flag /\ last.ok
    /\ Len(effects) = 2 /\ Len(last.value) = 2
    /\ effects[1].name = "vibrato"
    /\ effects[1].muted
    /\ EffectStateOf(effects[1]).parameters = EmptyMap
    /\ last.value[1].rate = 1
    /\ Parameters(effects[1]).rate = VibratoRate
    /\ last.value[2] = [n \in {"pan"} |-> 1]
    /\ Parameters(effects[2]) = [n \in {"pan"} |-> 1]

\* ---------------------------------------------------------------- PolySynth
\* the notes and the returned indices of the logged run of note_on calls
LogNotes == [k \in 1..Len(log.calls) |-> log.calls[k].note]
LogRets == [k \in 1..Len(log.calls) |-> log.calls[k].ret]
Distinct(s) == \A i, j \in 1..Len(s) : i # j => s[i] # s[j]

\* C7: on a fresh PolySynth with a buildable synth name and max_voices >= 1,
\* max_voices consecutive note_on calls with pairwise distinct notes return
\* pairwise distinct Some(index) values, and one further note_on with another
\* new note returns the index of the voice with the smallest age, which is the
\* voice the first call triggered.
C7_DistinctIndicesThenStealOldest ==
    [][ ( /\ last'.op = "note_on"
          /\ log'.fresh
          /\ CreateOk(synth_name)
          /\ max_voices >= 1
          /\ Distinct([k \in 1..Len(log'.calls) |-> log'.calls[k].note]) )
        => /\ ( Len(log'.calls) <= max_voices
                => /\ \A k \in 1..Len(log'.calls) : log'.calls[k].ret # None
                   /\ Distinct([k \in 1..Len(log'.calls) |-> log'.calls[k].ret]) )
           /\ ( Len(log'.calls) = max_voices + 1
                => /\ last'.ret # None
                   /\ \A j \in 1..Len(voices) :
                          voices[last'.ret[1] + 1].age <= voices[j].age
                   /\ last'.ret = log'.calls[1].ret )
      ]_vars

\* a full pool was filled by distinct notes and the next new note stole a voice
C7_Witness ==
    /\ last.op = "note_on"
    /\ log.fresh
    /\ max_voices = MaxVoices
    /\ Len(log.calls) = max_voices + 1
    /\ Distinct(LogNotes)
    /\ last.ret = Some(0)
    /\ created = max_voices + 1

\* C8: note_on for a note some voice already holds returns the index of that
\* voice, keeps its processor instance (no factory call), sets its amplitude
\* to the new velocity and its pitch bend to 1.0, and leaves exactly one voice
\* bound to the note; the pool size and every other voice are unchanged.
C8_RetriggerKeepsVoice ==
    [][ (last'.op = "note_on" /\ Holding(voices, last'.index) # {})
        => \E i \in Holding(voices, last'.index) :
              /\ last'.ret = Some(i - 1)
              /\ created' = created
              /\ voices'[i].unit = voices[i].unit
              /\ voices'[i].controls.amp = last'.value
              /\ voices'[i].controls.pitch_bend = UnityBend
              /\ Holding(voices', last'.index) = {i}
              /\ Len(voices') = Len(voices)
              /\ \A j \in 1..Len(voices) : j # i => voices'[j] = voices[j]
      ]_vars

\* the second of two sounding notes was struck again at another velocity after
\* the pitch was bent an octave up
C8_Witness ==
    /\ last.op = "note_on"
    /\ last.ret = Some(1)
    /\ last.value = 9
    /\ Len(voices) = 2
    /\ created = 2
    /\ voices[2].note = Some(last.index)
    /\ voices[2].controls.amp = 9
    /\ voices[2].age = 3
    /\ voices[1].note # None
    /\ voices[1].controls.pitch_bend = BendOf(12)

\* C9: note_off(n) frees and silences exactly the voices bound to n and leaves
\* every other voice unchanged; with no holder it changes nothing. The number
\* of active voices drops by one for a held note, the number of allocated
\* voices is unchanged, and after all_notes_off no voice is active.
C9_NoteOffFrame ==
    [][ /\ last'.op = "note_off"
           => /\ Len(voices') = Len(voices)
              /\ \A i \in 1..Len(voices) :
                    IF i \in Holding(voices, last'.index)
                    THEN /\ voices'[i].note = None
                         /\ voices'[i].controls.amp = 0
                    ELSE voices'[i] = voices[i]
              /\ (Holding(voices, last'.index) = {} => voices' = voices)
              /\ (Holding(voices, last'.index) # {}
                    => active_voices(voices') = active_voices(voices) - 1)
              /\ allocated_voices(voices') = allocated_voices(voices)
        /\ last'.op = "all_notes_off" => active_voices(voices') = 0
      ]_vars

\* one of two sounding notes was released: one voice is free and silent, the
\* other still sounds at its velocity
C9_Witness ==
    /\ last.op = "note_off"
    /\ Len(voices) = 2
    /\ voices[1].note = None
    /\ voices[1].controls.amp = 0
    /\ voices[2].note # None
    /\ voices[2].controls.amp = 9
    /\ active_voices(voices) = 1

\* the run of the scenario: a 2-voice "sine" manager after note_on of 60, 64
\* and 67 at one velocity
StealScenario ==
    /\ synth_name = "sine"
    /\ max_voices = 2
    /\ log.fresh
    /\ LogNotes = << 60, 64, 67 >>
    /\ \A k \in 1..Len(log.calls) : log.calls[k].velocity = 8

\* C10 as claimed: the three calls return 0, 1 and 0 and playing_notes() then
\* returns [64, 67].
C10_StealScenario_AsClaimed ==
    StealScenario
        => /\ LogRets = << Some(0), Some(1), Some(0) >>
           /\ playing_notes(voices) = << 64, 67 >>

\* C10: with a 2-voice PolySynth on "sine", note_on of 60, 64 and 67 return
\* the indices 0, 1 and 0 (the oldest voice is stolen), and playing_notes()
\* then returns the notes in pool order, [67, 64].
C10_StealScenario ==
    StealScenario
        => /\ LogRets = << Some(0), Some(1), Some(0) >>
           /\ playing_notes(voices) = << 67, 64 >>

\* the scenario has run and the third call was the last one
C10_Witness ==
    /\ StealScenario
    /\ last.op = "note_on" /\ last.index = 67
    /\ age_counter = 3

\* C11: after any sequence of note_on, note_off, all_notes_off, pitch_bend,
\* set_cutoff and set_resonance calls at most one voice is bound to any note:
\* playing_notes() has no duplicate and active_voices() is the number of
\* distinct held notes.
C11_OneVoicePerNote ==
    /\ \A i, j \in 1..Len(voices) :
          (i # j /\ voices[i].note # None) => voices[i].note # voices[j].note
    /\ Distinct(playing_notes(voices))
    /\ active_voices(voices)
          = Cardinality({voices[i].note : i \in 1..Len(voices)} \ {None})

\* a held note was struck again while the pool had room for another voice
C11_Witness ==
    /\ last.op = "note_on"
    /\ max_voices = 2
    /\ Len(voices) = 1
    /\ age_counter = 2
    /\ created = 1
    /\ voices[1].note = Some(last.index)

\* C12: when the registry cannot build the configured synth, note_on returns
\* None and leaves the manager unchanged: no voice is added, rebound, replaced
\* or freed and age_counter is not advanced; later calls behave the same.
C12_FactoryFailureLeavesManagerUnchanged ==
    [][ (last'.op = "note_on" /\ synth_name \notin SynthBuilders)
        => /\ last'.ret = None
           /\ voices' = voices
           /\ age_counter' = age_counter
           /\ created' = created
           /\ synth_name' = synth_name
           /\ max_voices' = max_voices
      ]_vars

\* a second note_on in a row failed on a manager whose synth the registry does
\* not know and whose pool has room
C12_Witness ==
    /\ last.op = "note_on"
    /\ last.ret = None
    /\ synth_name \notin SynthBuilders
    /\ max_voices = 2
    /\ voices = << >>
    /\ age_counter = 0
    /\ ~log.fresh

\* ---------------------------------------------------------------- indices
IndexOps ==
    { "remove_effect", "set_param", "bypass_effect", "mute_effect",
      "is_effect_bypassed", "is_effect_muted", "effect_latency",
      "effect_name", "effect_cpu_usage" }

\* C13 as claimed: every index-taking operation called with index >= len()
\* returns a boolean false or None and leaves the chain unchanged.
C13_OutOfRangeReturnsFalseOrNone_AsClaimed ==
    [][ (last'.op \in IndexOps /\ last'.index >= Len(effects))
        => /\ \/ (last'.returns = "bool" /\ ~last'.ok)
              \/ (last'.returns = "Option" /\ last'.ret = None)
           /\ effects' = effects
           /\ bypassed' = bypassed
           /\ sample_rate' = sample_rate
      ]_vars

\* mute_effect was called one past the end of a chain of two stages
C13_Witness ==
    /\ last.op = "mute_effect"
    /\ last.flag
    /\ last.index = 2
    /\ Len(effects) = 2
    /\ ~last.ok
    /\ \A k \in 1..2 : ~effects[k].muted

\* C14: set_param(i, name, v) on a valid index whose effect has no control
\* called name changes nothing: no parameter value, no stage added, removed,
\* reordered, bypassed or muted. When the control exists, the next read of the
\* parameter (controls.get or to_state) returns v and no other parameter
\* changes.
C14_SetParamUnknownNameIgnored ==
    [][ (last'.op = "set_param" /\ last'.index < Len(effects))
        => LET i == last'.index + 1 IN
           /\ last'.ok
           /\ bypassed' = bypassed
           /\ IF last'.name \notin DOMAIN effects[i].controls
              THEN effects' = effects
              ELSE /\ Get(effects'[i].controls, last'.name, -1) = last'.value
                   /\ Get(EffectStateOf(effects'[i]).parameters, last'.name, -1)
                         = last'.value
                   /\ effects' = [effects EXCEPT ![i].controls[last'.name] = last'.value]
      ]_vars

\* a name no control carries was written to the second of two stages, the first
\* of which has a control that is still at its default
C14_Witness ==
    /\ last.op = "set_param"
    /\ last.name = "bogus"
    /\ last.index = 1
    /\ Len(effects) = 2
    /\ effects[2].name = "pan"
    /\ effects[2].controls = [n \in {"pan"} |-> 0]
    /\ effects[1].controls = [n \in {"pan"} |-> 0]

\* ---------------------------------------------------------------- threads
\* C15: under any interleaving of list mutations on the control path with
\* process calls on the render path, each process call traverses one single
\* version of the list: while the call is in progress the list is the one the
\* call started on, the stages visited so far are its first stages in order,
\* and the call ends having visited exactly that list.
C15_TraversalSeesOneVersion ==
    /\ render.running
          => /\ Processing(effects) = Processing(render.borrowed)
             /\ \A k \in (render.pos + 1)..Len(effects) : effects[k] = render.borrowed[k]
             /\ render.pos <= Len(render.borrowed)
             /\ render.visited = SubSeq(render.borrowed, 1, render.pos)
    /\ (last.op = "process" /\ render.borrowed # << >>)
          => /\ render.visited = render.borrowed
             /\ Len(trace.stages) = Len(render.borrowed)

\* a process call is between the two stages of a list the control path built
\* before the call began
C15_Witness ==
    /\ render.running
    /\ render.pos = 1
    /\ Len(effects) = 2
    /\ effects[1].name = "pan"
    /\ effects[2].name = "vibrato"
    /\ effects[2].id = Some(1)

\* the value of the bits the reader loaded, and the values written so far to
\* the word it loaded them from, the initial value first
Loaded ==
    IF param.reader.cell = "target" THEN from_bits(AsU32(param.reader.bits))
    ELSE from_bits(param.reader.bits)
Written == param.written[param.reader.cell]
ReadOps == {"value", "next", "snap_to_target", "is_settled"}

\* C16 as claimed: every read, value() or next(), returns the initial value or
\* a value passed to some write, and one that is no older than the last write
\* completed before the read began.
C16_ReadsReturnWrittenValues_AsClaimed ==
    (last.op \in {"value", "next"} /\ last.ok)
        => \E k \in param.reader.floor..Len(Written) : last.ret[1] = Written[k]

\* C16: under any interleaving of writes (set / set_target) on the control
\* thread with reads (value / next) on the render thread, every load of the
\* parameter's atomic word yields a whole value, the initial one or one passed
\* to a write of that word, no older than the last write completed before the
\* read began; value() returns the value loaded (EffectControls::get of a name
\* without a parameter loads nothing and returns None), next() returns the
\* smoothed current, its previous value moved toward the value loaded by the
\* f32 smoothing step; neither thread waits for the other.
C16_LoadsAreWholeAndFresh ==
    /\ (param.reader.cell \in DOMAIN param.written
          /\ (param.reader.pc = "return" \/ (last.op \in ReadOps /\ param.reader.pc = "idle")))
          => /\ Loaded = Written[param.reader.saw]
             /\ param.reader.saw >= param.reader.floor
    /\ last.op = "value"
          => last.ret = IF last.name \in ControlNames THEN Some(Loaded) ELSE None
    /\ last.op = "next"
          => /\ last.ret = Some(Smooth(param.reader.before, Loaded, param.coefficient))
             /\ last.ret = Some(param.current)
    /\ param.reader.pc = "load" => ENABLED read_load
    /\ (param.writer.pc = "store" /\ param.writer.cell = "target") => ENABLED set_target
    /\ (param.writer.pc = "store" /\ param.writer.cell # "target") => ENABLED set

\* a next() that began before any write, loaded the value of a write that
\* completed meanwhile and returned a smoothed value, 0.35 on the way from 0.0
\* to 0.7 with the coefficient 0.5, while a second write was about to store
C16_Witness ==
    /\ last.op = "next"
    /\ param.reader.floor = 1
    /\ param.reader.saw = 2
    /\ param.written.target[1] = Zero32
    /\ param.written.target[2] = FRatio(F32, 7, 10)
    /\ param.coefficient = FRatio(F32, 1, 2)
    /\ last.ret = Some(FRatio(F32, 35, 100))
    /\ param.writer.pc = "store"

\* ---------------------------------------------------------------- latency
\* the sum of latency_samples over the stages at the positions in S
RECURSIVE LatencyOver(_, _)
LatencyOver(effs, S) ==
    IF S = {} THEN 0
    ELSE LET k == CHOOSE k \in S : TRUE IN
         effs[k].latency_samples + LatencyOver(effs, S \ {k})

\* C17: after any sequence of add, remove, reorder, bypass_effect and
\* mute_effect, total_latency() is the sum of latency_samples over exactly the
\* stages whose bypassed flag is false, muted ones included, and 0 for an
\* empty chain.
C17_TotalLatencySumsUnbypassed ==
    /\ TotalLatency(effects)
          = LatencyOver(effects, {k \in 1..Len(effects) : ~effects[k].bypassed})
    /\ effects = << >> => TotalLatency(effects) = 0
    /\ last.op = "total_latency" => last.ret = Some(TotalLatency(effects))

\* total_latency was asked of a chain of two stages with latency, the first
\* muted and counted, the second bypassed and not counted
C17_Witness ==
    /\ last.op = "total_latency"
    /\ last.ret = Some(VibratoLatency)
    /\ Len(effects) = 2
    /\ effects[1].id = Some(1) /\ effects[1].muted /\ ~effects[1].bypassed
    /\ effects[1].latency_samples = VibratoLatency
    /\ effects[2].id = None /\ effects[2].bypassed
    /\ effects[2].latency_samples = VibratoLatency

\* ---------------------------------------------------------------- failed load
\* C18: a from_state call that fails because the state names an effect the
\* registry cannot build returns the error and leaves the effect list, the
\* per-stage flags, the chain bypass flag and the sample rate as they were,
\* with no partially rebuilt list.
C18_FailedFromStateLeavesChainUnchanged ==
    [][ (last'.op = "from_state" /\ ~last'.ok /\ registry)
        => /\ effects' = effects
           /\ bypassed' = bypassed
           /\ sample_rate' = sample_rate
      ]_vars

\* a load that failed on its second effect left the first one rebuilt, with the
\* chain flag and the sample rate of the state that could not be loaded
C18_Witness ==
    /\ last.op = "from_state" /\ ~last.ok /\ ~last.flag
    /\ registry
    /\ Len(effects) = 1
    /\ effects[1].name = "pan" /\ effects[1].id = Some(1) /\ effects[1].bypassed
    /\ bypassed
    /\ sample_rate = 44100

\* ---------------------------------------------------------------- CPU classes
\* the classifications that hold of a PerformanceMetrics
Classes(m) ==
    {c \in {"overloaded", "moderate", "low"} :
        \/ c = "overloaded" /\ is_overloaded(m)
        \/ c = "moderate" /\ is_moderate(m)
        \/ c = "low" /\ is_low(m)}

\* C19 as claimed: for every cpu_usage exactly one classification holds,
\* is_overloaded iff usage > 0.8, is_moderate iff 0.4 <= usage <= 0.8, is_low
\* iff usage < 0.4; a meter fed only zero-duration timings reports cpu_usage
\* 0.0 and is_low.
C19_ExactlyOneCpuClass_AsClaimed ==
    LET m == meter.metrics
        u == m.cpu_usage IN
    /\ is_overloaded(m) <=> FLt(F64, Overload, u)
    /\ is_moderate(m) <=> (FLe(F64, Moderate, u) /\ FLe(F64, u, Overload))
    /\ is_low(m) <=> FLt(F64, u, Moderate)
    /\ Cardinality(Classes(m)) = 1
    /\ (m.samples_processed > 0 /\ m.total_time_ns = 0) => (u = Zero64 /\ is_low(m))

\* C19 amended: is_overloaded iff usage > 0.8, is_moderate iff
\* 0.4 <= usage <= 0.8, is_low iff usage < 0.4; exactly one of the three holds
\* for every cpu_usage that is a number and none holds when it is NaN; a
\* meter fed only zero-duration timings reports cpu_usage 0.0 and is_low when
\* its sample rate was finite at the last of them, and NaN, with no
\* classification, when it was infinite.
C19_ExactlyOneCpuClass ==
    LET m == meter.metrics
        u == m.cpu_usage IN
    /\ is_overloaded(m) <=> FLt(F64, Overload, u)
    /\ is_moderate(m) <=> (FLe(F64, Moderate, u) /\ FLe(F64, u, Overload))
    /\ is_low(m) <=> FLt(F64, u, Moderate)
    /\ Cardinality(Classes(m)) = IF FIsNaN(F64, u) THEN 0 ELSE 1
    /\ (m.samples_processed > 0 /\ m.total_time_ns = 0)
          => \/ u = Zero64 /\ is_low(m)
             \/ FIsNaN(F64, u) /\ Classes(m) = {}
    /\ (last.op = "stop_timing" /\ last.index > 0 /\ m.total_time_ns = 0)
          => IF FIsInf(F64, meter.sample_rate)
             THEN FIsNaN(F64, u) /\ Classes(m) = {}
             ELSE u = Zero64 /\ is_low(m)
    /\ last.op = "is_overloaded" => (last.ok <=> FLt(F64, Overload, u))
    /\ last.op = "is_moderate"
          => (last.ok <=> (FLe(F64, Moderate, u) /\ FLe(F64, u, Overload)))
    /\ last.op = "is_low" => (last.ok <=> FLt(F64, u, Moderate))

\* is_low was asked of a meter with an infinite sample rate after its only
\* timing, of zero duration, made the usage 0.0 / 0.0
C19_Witness ==
    /\ last.op = "is_low"
    /\ ~last.ok
    /\ FIsInf(F64, meter.sample_rate)
    /\ meter.metrics.samples_processed = 1
    /\ meter.metrics.total_time_ns = 0
    /\ FIsNaN(F64, meter.metrics.cpu_usage)

\* the ages carried by the voices of a pool
Ages(vs) == [i \in 1..Len(vs) |-> vs[i].age]

\* C20: every successful note_on (new slot, Free-slot reuse, steal or
\* retrigger) stamps the voice it returns with the counter's value, which is
\* greater than every age in the pool, and advances age_counter by one; no
\* operation ever lowers age_counter, so each stamp is greater than every
\* stamp before it, and no two voices of the pool carry the same age.
C20_AgesStrictlyIncrease ==
    [][ /\ age_counter' >= age_counter
        /\ Distinct(Ages(voices'))
        /\ \A i \in 1..Len(voices') : voices'[i].age < age_counter'
        /\ (last'.op = "note_on" /\ last'.ok) =>
              /\ At(voices', last'.ret[1]).age = age_counter
              /\ \A i \in 1..Len(voices) : voices[i].age < age_counter
              /\ age_counter' = age_counter + 1 ]_vars

\* note_on returned the first voice of a two-voice pool whose second voice is
\* Free: the first voice was retriggered or its Free slot was reused, and its
\* new age is above the age the second voice still carries
C20_Witness ==
    /\ last.op = "note_on"
    /\ last.ok
    /\ last.ret = Some(0)
    /\ Len(voices) = 2
    /\ voices[1].age = age_counter - 1
    /\ voices[1].age > voices[2].age
    /\ voices[2].note = None

\* C21: when the chain is not globally bypassed, process feeds its input to
\* stage 0, feeds each stage's output to the stage at the next index and
\* returns the last stage's output; the stages run so far are the first stages
\* of the list as it stands, each visited once and in increasing index order,
\* and a finished call has visited every stage of the list.
C21_StagesRunInListOrder ==
    /\ (render.running \/ (last.op = "process" /\ ~bypassed /\ effects # << >>))
          => /\ Len(render.visited) = Len(trace.stages)
             /\ Len(trace.stages) <= Len(effects)
             /\ \A k \in 1..Len(trace.stages) :
                   /\ Processing(render.visited)[k] = Processing(effects)[k]
                   /\ trace.stages[k].input
                         = IF k = 1 THEN trace.input ELSE trace.stages[k - 1].output
             /\ trace.output
                   = IF trace.stages = << >> THEN trace.input
                     ELSE trace.stages[Len(trace.stages)].output
    /\ (last.op = "process" /\ ~bypassed /\ effects # << >>)
          => Len(trace.stages) = Len(effects)

\* a process call returned after running both stages of a two-stage list, the
\* second on the sample the first handed on
C21_Witness ==
    /\ last.op = "process"
    /\ ~render.running
    /\ Len(effects) = 2
    /\ effects[1].name = "vibrato"
    /\ effects[1].id = Some(1)
    /\ effects[2].name = "pan"
    /\ Len(trace.stages) = 2
    /\ trace.stages[2].input = trace.stages[1].output
    /\ trace.stages[1].output # trace.input

\* C22: in one process_with_sidechain call on a live chain, a stage that is
\* neither muted nor bypassed invokes exactly one unit and adds one sample to
\* its CPU meter: its sidechain processor if and only if a sidechain sample is
\* supplied and the stage owns one, otherwise its plain processor; a muted or
\* bypassed stage invokes neither.
C22_OneUnitPerLiveStage ==
    [][ (last'.op \in ProcessOps /\ ~bypassed /\ effects # << >>)
        => /\ Len(trace'.stages) = Len(effects)
           /\ Len(effects') = Len(effects)
           /\ \A k \in 1..Len(effects) :
                LET e == effects[k]
                    st == trace'.stages[k] IN
                /\ (~e.muted /\ ~e.bypassed)
                      => /\ st.unit \in {"processor", "sidechain_processor"}
                         /\ st.unit = "sidechain_processor"
                               <=> (trace'.sidechain # None /\ e.sidechain_processor)
                         /\ effects'[k].cpu_meter.metrics.samples_processed
                               = e.cpu_meter.metrics.samples_processed + 1
                /\ (e.muted \/ e.bypassed)
                      => /\ st.unit = "none"
                         /\ effects'[k].cpu_meter = e.cpu_meter
      ]_vars

\* one call with a sidechain sample ran the sidechain processor of the stage
\* that owns one and the plain processor of the stage that does not, and the
\* meter of each holds the one sample of the call
C22_Witness ==
    /\ last.op = "process_with_sidechain"
    /\ trace.sidechain # None
    /\ ~bypassed
    /\ Len(effects) = 2
    /\ \E k \in 1..2 : trace.stages[k].unit = "sidechain_processor"
    /\ \E k \in 1..2 : trace.stages[k].unit = "processor"
    /\ \A k \in 1..2 : effects[k].cpu_meter.metrics.samples_processed = 1

\* the pool is full, no voice is Free and no voice holds the note
FullAndSounding(vs, maxv, note) ==
    /\ Len(vs) = maxv
    /\ FreeSlots(vs) = {}
    /\ Holding(vs, note) = {}

\* position i of the pool is stolen for the note of the call: i is the first
\* voice of minimum age, the call returns its index, the note it held is held
\* no more, and the pool size and every other voice are as before
Stolen(i) ==
    /\ \A j \in 1..Len(voices) :
          \/ voices[i].age < voices[j].age
          \/ (voices[i].age = voices[j].age /\ i <= j)
    /\ last'.ret = Some(i - 1)
    /\ voices'[i].note = Some(last'.index)
    /\ Holding(voices', voices[i].note[1]) = {}
    /\ Len(voices') = Len(voices)
    /\ \A j \in 1..Len(voices) : j # i => voices'[j] = voices[j]

\* C23 as claimed: in any reachable state where the pool holds max_voices
\* voices, none is Free and the requested note is not held, note_on steals the
\* voice of minimum age (lowest index among ties) and returns its index.
C23_StealsOldest_AsClaimed ==
    [][ (last'.op = "note_on" /\ FullAndSounding(voices, max_voices, last'.index))
        => \E i \in 1..Len(voices) : Stolen(i) ]_vars

\* C23: with max_voices >= 1, in any reachable state where the pool holds
\* max_voices voices, none is Free and the requested note is not held, note_on
\* steals the voice whose most recent trigger is the oldest (minimum age,
\* lowest index among ties): it returns that index, the stolen voice's
\* previous note is no longer held, and the pool size and all other voices are
\* unchanged.
C23_StealsOldest ==
    [][ ( /\ last'.op = "note_on"
          /\ max_voices >= 1
          /\ FullAndSounding(voices, max_voices, last'.index) )
        => \E i \in 1..Len(voices) : Stolen(i) ]_vars

\* the first voice was retriggered after the second was triggered, and the
\* next new note stole the second voice
C23_Witness ==
    /\ last.op = "note_on"
    /\ last.ret = Some(1)
    /\ max_voices = 2
    /\ Len(voices) = 2
    /\ created = 3
    /\ age_counter = 4
    /\ voices[1].age = 2
    /\ voices[2].age = 3
    /\ voices[2].note = Some(last.index)

\* the voices of the pool that are Free, and the Sounding voices whose note
\* binding the step took away or replaced
FreeBefore == {i \in 1..Len(voices) : voices[i].note = None}
Rebound == {i \in 1..Len(voices) : voices[i].note # None /\ voices'[i].note # voices[i].note}

\* C24: note_on for a note that is not held binds the lowest-index Free voice
\* whenever the pool contains one, without growing the pool or stealing; the
\* pool grows, by one slot, only when no voice is Free and its size is below
\* max_voices; a Sounding voice is stolen only when no voice is Free and the
\* pool size equals max_voices.
C24_FreeBeforeGrowBeforeSteal ==
    [][ last'.op = "note_on"
        => /\ ( (Holding(voices, last'.index) = {} /\ FreeBefore # {})
                => LET i == CHOOSE f \in FreeBefore : \A g \in FreeBefore : f <= g IN
                   /\ last'.ret = Some(i - 1)
                   /\ voices'[i].note = Some(last'.index)
                   /\ Len(voices') = Len(voices)
                   /\ Rebound = {} )
           /\ ( Len(voices') # Len(voices)
                => /\ Len(voices') = Len(voices) + 1
                   /\ FreeBefore = {}
                   /\ Len(voices) < max_voices )
           /\ ( Rebound # {}
                => /\ FreeBefore = {}
                   /\ Len(voices) = max_voices ) ]_vars

\* a full pool whose second voice had been released took a new note into the
\* second slot, and the first voice went on sounding
C24_Witness ==
    /\ last.op = "note_on"
    /\ last.ret = Some(1)
    /\ max_voices = 2
    /\ Len(voices) = 2
    /\ created = 3
    /\ voices[1].age = 0
    /\ voices[1].note # None
    /\ voices[2].note = Some(last.index)

BroadcastOps == {"pitch_bend", "set_cutoff", "set_resonance"}

\* the controls of a voice after the broadcast of the call wrote its value to
\* the control the call is about, if the voice exposes it
Broadcast(c, op, v) ==
    CASE op = "pitch_bend" -> [c EXCEPT !.pitch_bend = BendOf(v)]
      [] op = "set_cutoff" -> IF c.cutoff # None THEN [c EXCEPT !.cutoff = Some(v)] ELSE c
      [] op = "set_resonance" -> IF c.resonance # None THEN [c EXCEPT !.resonance = Some(v)] ELSE c

\* C25: pitch_bend, set_cutoff and set_resonance each write the new value to
\* the corresponding control of every Sounding voice that exposes it and to no
\* other parameter: the controls of Free voices are left unchanged, voices
\* lacking the optional control are skipped, and no note binding or age
\* changes.
C25_BroadcastReachesSoundingVoicesOnly ==
    [][ last'.op \in BroadcastOps
        => /\ Len(voices') = Len(voices)
           /\ \A i \in 1..Len(voices) :
                /\ voices'[i].note = voices[i].note
                /\ voices'[i].age = voices[i].age
                /\ voices'[i].unit = voices[i].unit
                /\ voices'[i].controls
                      = IF voices[i].note = None THEN voices[i].controls
                        ELSE Broadcast(voices[i].controls, last'.op, last'.value) ]_vars

\* set_cutoff has written its value to the cutoff of a voice that is Free
C25_Witness ==
    /\ last.op = "set_cutoff"
    /\ \E i \in 1..Len(voices) :
          /\ voices[i].note = None
          /\ voices[i].controls.cutoff = Some(last.value)
          /\ last.value # DefaultCutoff

\* C26: after any sequence of PolySynth operations,
\* active_voices() <= allocated_voices() <= max_voices(); allocated_voices()
\* is 0 after construction and never decreases; with max_voices = 0 every
\* note_on returns None and the pool stays empty.
C26_PoolCountsBounded ==
    /\ allocated_voices(voices) = 0
    /\ [][ /\ active_voices(voices') <= allocated_voices(voices')
           /\ allocated_voices(voices') <= max_voices'
           /\ allocated_voices(voices') >= allocated_voices(voices)
           /\ (last'.op = "note_on" /\ max_voices = 0)
                 => (last'.ret = None /\ voices' = << >>) ]_vars

\* a full pool with one voice released and one sounding, after a note_on
C26_Witness ==
    /\ last.op = "note_on"
    /\ max_voices = 2
    /\ allocated_voices(voices) = 2
    /\ active_voices(voices) = 1
    /\ created = 3

\* C27: the levels of a stage are recomputed only on the call whose sample
\* fills its 2048-sample window, not on every process call; the window never
\* holds more than 2048 samples, the oldest leaving first; and the reported
\* levels stay (0, 0, 0, 0) until the window has filled once.
C27_LevelsRecomputedOnlyOnFill ==
    [][ last'.op = "process"
        => \A k \in 1..Len(effects') :
              LET before == BufferLen(effects[k].input_level_buffer)
                  after == BufferLen(effects'[k].input_level_buffer) IN
              /\ after <= LevelWindow
              /\ BufferLen(effects'[k].output_level_buffer) <= LevelWindow
              /\ trace'.stages[k].recomputed
                    => (before < LevelWindow /\ after = LevelWindow)
              /\ after < LevelWindow
                    => /\ effects'[k].last_input_levels = NoLevels
                       /\ effects'[k].last_output_levels = NoLevels
              /\ (before = LevelWindow /\ effects[k].input_level_buffer[1].count = 1)
                    => effects'[k].input_level_buffer
                          = PushSample(Tail(effects[k].input_level_buffer),
                                       trace'.stages[k].input) ]_vars

\* a call on a stage whose window had filled on the call before: the impulse
\* of the first sample has left the window and the levels were computed again
C27_Witness ==
    /\ last.op = "process"
    /\ Len(effects) = 1
    /\ effects[1].cpu_meter.metrics.samples_processed = LevelWindow + 1
    /\ effects[1].input_level_buffer = << [ sample |-> SteadySample, count |-> LevelWindow ] >>
    /\ trace.stages[1].recomputed
    /\ effects[1].last_input_levels = << 100, 200, 100, 200 >>

\* the same list with the meters, windows and levels of a list just built
FreshMeters(effs) ==
    [k \in 1..Len(effs) |->
        [effs[k] EXCEPT !.cpu_meter.metrics = NewMetrics,
                        !.input_level_buffer = << >>,
                        !.output_level_buffer = << >>,
                        !.last_input_levels = NoLevels,
                        !.last_output_levels = NoLevels]]

\* clock readings that differ from ns at every stage
OtherTimes(ns) == [k \in DOMAIN ns |-> CHOOSE t \in StageTimes : t # ns[k]]

\* what a process call hands from stage to stage
Flow(r) == [k \in 1..Len(r.stages) |->
              << r.stages[k].input, r.stages[k].output, r.stages[k].unit >>]

\* C28: metering never alters processing: a chain and a chain with the same
\* effect list, flags, parameter values and processor answers but other
\* CPU-meter contents, level windows and reported levels, whose units are
\* timed at whatever the clock reads for each stage and differently in each
\* run, return the same output for the same input and are left with the same processing
\* state, so that they agree on every sequence of inputs; reset_cpu_meters
\* changes no output.
C28_MeteringDoesNotAlterProcessing ==
    \A x \in {SteadySample, ImpulseSample} :
      \A answers \in [1..Len(effects) -> UnitAnswers] :
       \A ns \in [1..Len(effects) -> StageTimes] :
        LET a == ProcessMetered(effects, bypassed, x, None, answers, ns)
            b == ProcessMetered(FreshMeters(effects), bypassed, x, None, answers,
                                OtherTimes(ns))
            c == ProcessMetered(ResetCpuMeters(effects), bypassed, x, None, answers,
                                OtherTimes(ns)) IN
        /\ a.output = b.output
        /\ Flow(a) = Flow(b)
        /\ Processing(a.effects) = Processing(b.effects)
        /\ a.output = c.output
        /\ Flow(a) = Flow(c)

\* a live stage whose meter reports an overload and whose windows hold
\* samples has just been run
C28_Witness ==
    /\ last.op = "process"
    /\ ~bypassed
    /\ Len(effects) = 2
    /\ ~effects[1].bypassed
    /\ is_overloaded(effects[1].cpu_meter.metrics)
    /\ BufferLen(effects[1].input_level_buffer) = 2
    /\ ~effects[2].bypassed
    /\ is_low(effects[2].cpu_meter.metrics)
    /\ effects[2].cpu_meter.metrics.samples_processed = 2
    /\ effects # FreshMeters(effects)
    /\ effects # ResetCpuMeters(effects)
    /\ trace.output # trace.input

\* C29: after any sequence of stop_timing(elapsed, n) calls since construction
\* or the last reset, samples_processed is the sum of n, total_time_ns the sum
\* of elapsed over the calls with n > 0 and peak_sample_time_ns the maximum of
\* floor(elapsed / n) over those calls: all three are 0 after construction,
\* each call with n > 0 adds n and elapsed and raises the peak to
\* floor(elapsed / n) if that is larger, a call with n = 0 leaves every metric
\* unchanged, and reset() returns every metric to zero.
C29_MeterSumsAndPeak ==
    /\ meter.metrics.samples_processed = 0
    /\ meter.metrics.total_time_ns = 0
    /\ meter.metrics.peak_sample_time_ns = 0
    /\ [][ /\ last'.op = "stop_timing"
              => LET n == last'.index
                     elapsed == last'.value
                     m == meter.metrics IN
                 IF n = 0 THEN meter' = meter
                 ELSE /\ meter'.metrics.samples_processed = m.samples_processed + n
                      /\ meter'.metrics.total_time_ns = m.total_time_ns + elapsed
                      /\ meter'.metrics.peak_sample_time_ns
                            = IF elapsed \div n > m.peak_sample_time_ns
                              THEN elapsed \div n ELSE m.peak_sample_time_ns
           /\ last'.op = "reset"
              => /\ \A f \in {"samples_processed", "total_time_ns", "peak_sample_time_ns"} :
                       meter'.metrics[f] = 0
                 /\ \A f \in {"avg_sample_time_ns", "cpu_usage"} :
                       meter'.metrics[f] = Zero64 ]_vars

\* two timed calls, of two samples in 800 ns and of one sample in 399 ns
C29_Witness ==
    /\ last.op = "stop_timing"
    /\ last.index = 1
    /\ last.value = 399
    /\ meter.metrics.samples_processed = 3
    /\ meter.metrics.total_time_ns = 1199
    /\ meter.metrics.peak_sample_time_ns = 400

\* the list s without its element at 1-based position p
C30_Without(s, p) == SubSeq(s, 1, p - 1) \o SubSeq(s, p + 1, Len(s))

\* C30: reorder_effect_by_id(id, k) with id in the chain and k < len() puts
\* the first effect carrying id at index k, leaves the other effects as they
\* were and in the same relative order, keeps the length and returns true;
\* with id absent or k >= len() it returns false and the chain is unchanged
C30_ReorderMovesFirstMatch ==
    [][ last'.op = "reorder_effect_by_id" =>
          LET id == last'.value
              k == last'.index
              carriers == {j \in 1..Len(effects) : effects[j].id = Some(id)}
          IN  IF carriers # {} /\ k < Len(effects)
              THEN LET first == CHOOSE j \in carriers : \A c \in carriers : j <= c IN
                   /\ Len(effects') = Len(effects)
                   /\ effects'[k + 1] = effects[first]
                   /\ C30_Without(effects', k + 1) = C30_Without(effects, first)
                   /\ last'.ok = TRUE
              ELSE /\ last'.ok = FALSE
                   /\ effects' = effects ]_vars

\* a chain of three whose first and last effects carry id 1 and whose first
\* effect alone is bypassed; reorder_effect_by_id(1, 2) has just returned
\* true, so the bypassed effect went from index 0 to index 2, past the other
\* carrier of the id
C30_Witness ==
    /\ last.op = "reorder_effect_by_id"
    /\ last.value = 1
    /\ last.index = 2
    /\ last.ok
    /\ last.ret = Some(0)
    /\ Len(effects) = 3
    /\ effects[1].id = None
    /\ effects[2].id = Some(1)
    /\ ~effects[2].bypassed
    /\ effects[3].id = Some(1)
    /\ effects[3].bypassed
====
